---- MODULE Spec2Model ----
(***************************************************************************)
(* A model of libreauth's password module: the PHC storage-format codec    *)
(* (src/pass/phc.rs) and the HashBuilder / Hasher pipeline                 *)
(* (src/pass/mod.rs).                                                      *)
(*                                                                         *)
(* Byte strings are sequences of one-character strings, bytes are the      *)
(* integers 0..255, a HashMap is a function from its keys to its values,   *)
(* an Option is a record [some, v] and a Result a record [ok, ...].        *)
(***************************************************************************)
EXTENDS Integers, Sequences, FiniteSets, TLC

VARIABLES
    input,      \* codec: the byte string handed to PHCData::from_bytes
    nsegs,      \* codec: number of "$"-segments appended to input so far
    strict,     \* codec: does the linked base64 decoder reject non-zero trailing bits
    phc,        \* codec: Result<PHCData, ()> of from_bytes(input)
    out,        \* codec: Result<String, ()> of phc.to_string()
    phc2,       \* codec: from_bytes(out)
    out2,       \* codec: phc2.to_string()
    cpc,        \* codec: position of the codec run
    hb,         \* pipeline: the HashBuilder
    ncalls,     \* pipeline: number of setter calls made on hb
    hasher,     \* pipeline: Result<Hasher, ErrorCode> of finalize() or from_phc()
    origin,     \* pipeline: how hasher was obtained
    pw,         \* pipeline: the password given to hash()
    rec,        \* pipeline: outcome of hash(pw)
    cand,       \* pipeline: the password given to is_valid()
    valid,      \* pipeline: outcome of is_valid(cand)
    ppc,        \* pipeline: position of the pipeline run
    overflow_checks, \* build: does an arithmetic overflow panic (it wraps otherwise)
    trace,      \* pipeline: what the last hash() or is_valid() call did, in order
    asked,      \* pipeline: the version given to needs_update()
    upd,        \* pipeline: outcome of needs_update(asked)
    again,      \* pipeline: the hash() calls made on a Policy parsed from a record
    calls,      \* pipeline: the algorithm() and add_param() calls made on hb, in order
    frozen,     \* shared policy: the builder as it was when finalize() was called
    callers     \* shared policy: the calls of the concurrent callers

cvars == <<input, nsegs, strict, phc, out, phc2, out2, cpc, overflow_checks>>
pvars == <<hb, ncalls, hasher, origin, pw, rec, cand, valid, ppc>>
qvars == <<trace, asked, upd, again, calls>>
svars == <<frozen, callers>>
vars == <<cvars, pvars, qvars, svars>>

---------------------------------------------------------------------------
(* Option and Result values *)

None == [some |-> FALSE, v |-> <<>>]
Some(x) == [some |-> TRUE, v |-> x]

---------------------------------------------------------------------------
(* Character classes of the grammar *)

B64Chars ==
    << "A","B","C","D","E","F","G","H","I","J","K","L","M",
       "N","O","P","Q","R","S","T","U","V","W","X","Y","Z",
       "a","b","c","d","e","f","g","h","i","j","k","l","m",
       "n","o","p","q","r","s","t","u","v","w","x","y","z",
       "0","1","2","3","4","5","6","7","8","9","+","/" >>

Upper == {B64Chars[i] : i \in 1..26}
Lower == {B64Chars[i] : i \in 27..52}
Digit == {B64Chars[i] : i \in 53..62}

is_b64(chr) == chr \in Upper \cup Lower \cup Digit \cup {"+", "/"}

is_id_char(chr) == chr \in Lower \cup Digit \cup {"-"}

is_param_name_char(chr) == chr \in Lower \cup Digit \cup {"-"}

is_param_value_char(chr) == chr \in Upper \cup Lower \cup Digit \cup {"+", "-", ".", "/"}

---------------------------------------------------------------------------
(* base64, standard alphabet, no padding *)

B64Value(chr) == (CHOOSE i \in 1..64 : B64Chars[i] = chr) - 1

RECURSIVE DecodeSyms(_)
DecodeSyms(v) ==
    IF Len(v) < 2 THEN <<>>
    ELSE IF Len(v) = 2 THEN << v[1] * 4 + (v[2] \div 16) >>
    ELSE IF Len(v) = 3 THEN << v[1] * 4 + (v[2] \div 16),
                               (v[2] % 16) * 16 + (v[3] \div 4) >>
    ELSE << v[1] * 4 + (v[2] \div 16),
            (v[2] % 16) * 16 + (v[3] \div 4),
            (v[3] % 4) * 64 + v[4] >> \o DecodeSyms(SubSeq(v, 5, Len(v)))

TrailingBitsZero(v) ==
    CASE Len(v) % 4 = 2 -> v[Len(v)] % 16 = 0
      [] Len(v) % 4 = 3 -> v[Len(v)] % 4 = 0
      [] OTHER -> TRUE

\* base64::decode_config(data, STANDARD_NO_PAD): a length of 1 mod 4 is never
\* decodable; non-zero trailing bits are rejected by the decoders that check
\* them (st) and silently dropped by the others.
decode_values(v, st) ==
    IF Len(v) % 4 = 1 THEN [ok |-> FALSE, v |-> <<>>]
    ELSE IF st /\ ~TrailingBitsZero(v) THEN [ok |-> FALSE, v |-> <<>>]
    ELSE [ok |-> TRUE, v |-> DecodeSyms(v)]

decode_config(data, st) ==
    IF \E i \in 1..Len(data) : ~is_b64(data[i]) THEN [ok |-> FALSE, v |-> <<>>]
    ELSE decode_values([i \in 1..Len(data) |-> B64Value(data[i])], st)

RECURSIVE EncodeSyms(_)
EncodeSyms(b) ==
    IF Len(b) = 0 THEN <<>>
    ELSE IF Len(b) = 1 THEN << b[1] \div 4, (b[1] % 4) * 16 >>
    ELSE IF Len(b) = 2 THEN << b[1] \div 4,
                               (b[1] % 4) * 16 + (b[2] \div 16),
                               (b[2] % 16) * 4 >>
    ELSE << b[1] \div 4,
            (b[1] % 4) * 16 + (b[2] \div 16),
            (b[2] % 16) * 4 + (b[3] \div 64),
            b[3] % 64 >> \o EncodeSyms(SubSeq(b, 4, Len(b)))

encode_chars(v) == [i \in 1..Len(v) |-> B64Chars[v[i] + 1]]

\* Mutant of to_b64: the padded alphabet configuration (STANDARD).
to_b64_padded(data) ==
    encode_chars(EncodeSyms(data))
        \o (CASE Len(data) % 3 = 1 -> <<"=", "=">>
              [] Len(data) % 3 = 2 -> <<"=">>
              [] OTHER -> <<>>)

to_b64(data) == encode_chars(EncodeSyms(data))

decoded(r) == IF r.ok THEN Some(r.v) ELSE None

\* Mutant of from_b64: the arm mapping an empty segment to None is missing.
from_b64_keep_empty(data, st) ==
    IF ~data.some THEN None
    ELSE decoded(decode_config(data.v, st))

\* Mutant of from_b64: a segment that does not decode is kept, as no bytes.
from_b64_lossy(data, st) ==
    IF ~data.some THEN None
    ELSE IF Len(data.v) = 0 THEN None
    ELSE Some(decode_config(data.v, st).v)

from_b64(data, st) ==
    IF ~data.some THEN None
    ELSE IF Len(data.v) = 0 THEN None
    ELSE decoded(decode_config(data.v, st))

---------------------------------------------------------------------------
(* The nom parsers over CompleteByteSlice: a parser takes the input s and  *)
(* the index pos of the first unread byte and returns [ok, rest, val],     *)
(* rest being the index of the first byte it left unread.                  *)

RECURSIVE take_while(_, _, _)
take_while(s, pos, cls) ==
    IF pos <= Len(s) /\ s[pos] \in cls THEN take_while(s, pos + 1, cls) ELSE pos

AllChars == {B64Chars[i] : i \in 1..64} \cup {"$", "=", ",", "-", ".", "@", "%", "?"}
IdClass == {c \in AllChars : is_id_char(c)}
NameClass == {c \in AllChars : is_param_name_char(c)}
ValueClass == {c \in AllChars : is_param_value_char(c)}
B64Class == {c \in AllChars : is_b64(c)}

tag(s, pos, chr) == pos <= Len(s) /\ s[pos] = chr

Slice(s, from, to) == SubSeq(s, from, to - 1)

\* do_parse!(tag!("$") >> id: take_while1!(is_id_char))
id_upto(s, pos, e) ==
    IF e = pos + 1 THEN [ok |-> FALSE, rest |-> pos, val |-> <<>>]
    ELSE [ok |-> TRUE, rest |-> e, val |-> Slice(s, pos + 1, e)]

get_id(s, pos) ==
    IF ~tag(s, pos, "$") THEN [ok |-> FALSE, rest |-> pos, val |-> <<>>]
    ELSE id_upto(s, pos, take_while(s, pos + 1, IdClass))

\* do_parse!(tag!("$") >> data: take_while!(is_b64))
part_upto(s, pos, e) == [ok |-> TRUE, rest |-> e, val |-> Slice(s, pos + 1, e)]

get_phc_part(s, pos) ==
    IF ~tag(s, pos, "$") THEN [ok |-> FALSE, rest |-> pos, val |-> <<>>]
    ELSE part_upto(s, pos, take_while(s, pos + 1, B64Class))

NoElem(pos) == [ok |-> FALSE, rest |-> pos, name |-> <<>>, value |-> <<>>]

\* value: take_while1!(is_param_value_char) >> opt!(complete!(tag!(",")))
elem_value(s, pos, n, v) ==
    IF v = n + 1 THEN NoElem(pos)
    ELSE [ok |-> TRUE,
          rest |-> IF tag(s, v, ",") THEN v + 1 ELSE v,
          name |-> Slice(s, pos, n),
          value |-> Slice(s, n + 1, v)]

\* name: take_while1!(is_param_name_char) >> tag!("=")
elem_name(s, pos, n) ==
    IF n = pos THEN NoElem(pos)
    ELSE IF ~tag(s, n, "=") THEN NoElem(pos)
    ELSE elem_value(s, pos, n, take_while(s, n + 1, ValueClass))

get_param_elem(s, pos) == elem_name(s, pos, take_while(s, pos, NameClass))

\* Mutant of Insert: a name that is already there keeps its value.
InsertNew(hm, k, v) == hm @@ (k :> v)

Insert(hm, k, v) == (k :> v) @@ hm

EmptyMap == [k \in {} |-> <<>>]

\* fold_many0!(get_param_elem, HashMap::new(), insert): the fold stops at the
\* first element that fails and leaves it unread.
RECURSIVE fold_many0(_, _, _)
fold_step(s, pos, hm, e) ==
    IF e.ok THEN fold_many0(s, e.rest, Insert(hm, e.name, e.value))
    ELSE [ok |-> TRUE, rest |-> pos, val |-> hm]

fold_many0(s, pos, hm) == fold_step(s, pos, hm, get_param_elem(s, pos))

get_params(s, pos) == fold_many0(s, pos, EmptyMap)

parse_params(s, pos) ==
    IF ~tag(s, pos, "$") THEN [ok |-> FALSE, rest |-> pos, val |-> EmptyMap]
    ELSE get_params(s, pos + 1)

\* opt!(p): None, and nothing consumed, when p fails.
opt(r, pos, none) ==
    IF r.ok THEN [some |-> TRUE, rest |-> r.rest, val |-> r.val]
    ELSE [some |-> FALSE, rest |-> pos, val |-> none]

\* cond!(c, get_phc_part): the parser when c holds; None, and nothing
\* consumed, when c is false or the parser fails.
cond(c, s, pos) ==
    IF c THEN opt(get_phc_part(s, pos), pos, <<>>)
    ELSE [some |-> FALSE, rest |-> pos, val |-> <<>>]

AsOption(r) == IF r.some THEN Some(r.val) ELSE None

\* The do_parse! chain of get_phc, one operator per step.
phc_hash(st, id, parameters, salt, hash) ==
    [ok |-> TRUE, rest |-> hash.rest,
     val |-> [id |-> id,
              parameters |-> parameters.val,
              salt |-> from_b64(AsOption(salt), st),
              hash |-> from_b64(AsOption(hash), st)]]

phc_salt(s, st, id, parameters, salt) ==
    phc_hash(st, id, parameters, salt, cond(salt.some, s, salt.rest))

phc_parameters(s, st, id, parameters) ==
    phc_salt(s, st, id, parameters, cond(parameters.some, s, parameters.rest))

phc_id(s, st, id) ==
    IF ~id.ok THEN [ok |-> FALSE, rest |-> 1, val |-> <<>>]
    ELSE phc_parameters(s, st, id.val, opt(parse_params(s, id.rest), id.rest, EmptyMap))

get_phc(s, st) == phc_id(s, st, get_id(s, 1))

NoPHC == [id |-> <<>>, parameters |-> EmptyMap, salt |-> None, hash |-> None]

\* Mutant of consumed_all: the check for unread trailing bytes is missing.
consumed_any(s, r) ==
    IF r.ok THEN [ok |-> TRUE, v |-> r.val]
    ELSE [ok |-> FALSE, v |-> NoPHC]

consumed_all(s, r) ==
    IF r.ok /\ r.rest = Len(s) + 1 THEN [ok |-> TRUE, v |-> r.val]
    ELSE [ok |-> FALSE, v |-> NoPHC]

from_bytes(s, st) == consumed_all(s, get_phc(s, st))

---------------------------------------------------------------------------
(* PHCData::to_string.  HashMap iteration order is unspecified: ord is the *)
(* order in which this run of the loop visits the keys.                    *)

Orders(S) ==
    {f \in [1..Cardinality(S) -> S] : \A i, j \in 1..Cardinality(S) : i # j => f[i] # f[j]}

RECURSIVE JoinParams(_, _, _)
JoinParams(hm, ord, i) ==
    IF i > Len(ord) THEN <<>>
    ELSE (IF i = 1 THEN <<>> ELSE <<",">>) \o ord[i] \o <<"=">> \o hm[ord[i]]
         \o JoinParams(hm, ord, i + 1)

to_string(self, ord) ==
    IF Len(self.id) = 0 THEN [ok |-> FALSE, v |-> <<>>]
    ELSE IF DOMAIN self.parameters = {} /\ ~self.salt.some
         THEN [ok |-> TRUE, v |-> <<"$">> \o self.id]
    ELSE [ok |-> TRUE,
          v |-> <<"$">> \o self.id \o <<"$">> \o JoinParams(self.parameters, ord, 1)
                \o (IF self.salt.some
                    THEN <<"$">> \o to_b64(self.salt.v)
                         \o (IF self.hash.some THEN <<"$">> \o to_b64(self.hash.v) ELSE <<>>)
                    ELSE <<>>)]

---------------------------------------------------------------------------
(* The idle state of the codec run *)

NoResult == [ok |-> FALSE, v |-> <<>>]
NoParse == [ok |-> FALSE, v |-> NoPHC]

CodecIdle(st) ==
    /\ input = <<>>
    /\ nsegs = 0
    /\ strict = st
    /\ phc = NoParse
    /\ out = NoResult
    /\ phc2 = NoParse
    /\ out2 = NoResult

---------------------------------------------------------------------------
(* Text and numbers *)

Chars(str) == [i \in 1..Len(str) |-> SubSeq(str, i, i)]

DigitChars == <<"0","1","2","3","4","5","6","7","8","9">>

\* format!("{}", n) for an unsigned integer
RECURSIVE ToDec(_)
ToDec(n) == IF n < 10 THEN << DigitChars[n + 1] >>
            ELSE ToDec(n \div 10) \o << DigitChars[(n % 10) + 1] >>

DigitValue(c) == (CHOOSE i \in 1..10 : DigitChars[i] = c) - 1

RECURSIVE DecValue(_, _)
DecValue(ds, acc) ==
    IF ds = <<>> THEN acc ELSE DecValue(Tail(ds), acc * 10 + DigitValue(Head(ds)))

\* usize::MAX.  usize is taken 16 bits wide, the narrowest Rust has: sums and
\* numerals meet the largest value the same way at every width.
USIZE_MAX == 65535

\* a + b as the build computes it when it does not panic on overflow
wrapping_add(a, b) == (a + b) % (USIZE_MAX + 1)

add_overflows(a, b) == a + b > USIZE_MAX

\* a numeral whose value does not fit usize is an error as well
parse_digits(ds) ==
    IF ds = <<>> \/ \E i \in 1..Len(ds) : ds[i] \notin Digit THEN [ok |-> FALSE, v |-> 0]
    ELSE IF DecValue(ds, 0) > USIZE_MAX THEN [ok |-> FALSE, v |-> 0]
    ELSE [ok |-> TRUE, v |-> DecValue(ds, 0)]

\* str::parse::<usize>(): decimal digits after an optional "+"; anything else,
\* the empty string and a lone sign included, is an error.
parse_usize(v) ==
    IF v # <<>> /\ Head(v) = "+" THEN parse_digits(Tail(v)) ELSE parse_digits(v)

---------------------------------------------------------------------------
(* HashBuilder *)

INTERNAL_VERSION == 1
DEFAULT_USER_VERSION == 0

\* std_default: the library defaults
DEFAULT_NORMALIZATION == "Nfkc"
DEFAULT_PASSWORD_MIN_LEN == 8
DEFAULT_PASSWORD_MAX_LEN == 128
DEFAULT_ALGORITHM == "Argon2"
DEFAULT_SALT_LEN == 16
DEFAULT_LENGTH_CALCULATION == "Characters"

\* std_nist: the defaults of NIST SP 800-63B and its thresholds
NIST_DEFAULT_NORMALIZATION == "Nfkc"
NIST_DEFAULT_PASSWORD_MIN_LEN == 8
NIST_DEFAULT_PASSWORD_MAX_LEN == 128
NIST_DEFAULT_ALGORITHM == "Pbkdf2"
NIST_DEFAULT_SALT_LEN == 16
NIST_DEFAULT_LENGTH_CALCULATION == "Characters"
NIST_PASSWORD_MIN_LEN == 8
NIST_PASSWORD_MAX_LEN == 64
NIST_SALT_MIN_LEN == 4
NIST_PBKDF2_MIN_ITER == 10000

new_std(std) ==
    IF std = "Nist80063b"
    THEN [standard |-> "Nist80063b",
          normalization |-> NIST_DEFAULT_NORMALIZATION,
          min_len |-> NIST_DEFAULT_PASSWORD_MIN_LEN,
          max_len |-> NIST_DEFAULT_PASSWORD_MAX_LEN,
          algorithm |-> NIST_DEFAULT_ALGORITHM,
          parameters |-> EmptyMap,
          ref_salt |-> None,
          ref_hash |-> None,
          salt_len |-> NIST_DEFAULT_SALT_LEN,
          length_calculation |-> NIST_DEFAULT_LENGTH_CALCULATION,
          version |-> DEFAULT_USER_VERSION + INTERNAL_VERSION]
    ELSE [standard |-> "NoStandard",
          normalization |-> DEFAULT_NORMALIZATION,
          min_len |-> DEFAULT_PASSWORD_MIN_LEN,
          max_len |-> DEFAULT_PASSWORD_MAX_LEN,
          algorithm |-> DEFAULT_ALGORITHM,
          parameters |-> EmptyMap,
          ref_salt |-> None,
          ref_hash |-> None,
          salt_len |-> DEFAULT_SALT_LEN,
          length_calculation |-> DEFAULT_LENGTH_CALCULATION,
          version |-> DEFAULT_USER_VERSION + INTERNAL_VERSION]

new == new_std("NoStandard")

iter_at_least(r, min) == r.ok /\ r.v >= min

\* std_nist::is_valid
nist_is_valid(self) ==
    /\ self.min_len >= NIST_PASSWORD_MIN_LEN
    /\ self.max_len >= NIST_PASSWORD_MAX_LEN
    /\ self.length_calculation = "Characters"
    /\ self.normalization \in {"None", "Nfkc", "Nfkd"}
    /\ self.algorithm = "Pbkdf2"
    /\ self.salt_len >= NIST_SALT_MIN_LEN
    /\ Chars("iter") \in DOMAIN self.parameters =>
          iter_at_least(parse_usize(self.parameters[Chars("iter")]), NIST_PBKDF2_MIN_ITER)

\* Mutant of HasherOf: min_len and salt_len are taken from each other.
HasherOfSwapped(self) ==
    [normalization |-> self.normalization,
     min_len |-> self.salt_len,
     max_len |-> self.max_len,
     algorithm |-> self.algorithm,
     parameters |-> self.parameters,
     ref_salt |-> self.ref_salt,
     ref_hash |-> self.ref_hash,
     salt_len |-> self.min_len,
     length_calculation |-> self.length_calculation,
     version |-> self.version]

HasherOf(self) ==
    [normalization |-> self.normalization,
     min_len |-> self.min_len,
     max_len |-> self.max_len,
     algorithm |-> self.algorithm,
     parameters |-> self.parameters,
     ref_salt |-> self.ref_salt,
     ref_hash |-> self.ref_hash,
     salt_len |-> self.salt_len,
     length_calculation |-> self.length_calculation,
     version |-> self.version]

NoHasher == [ok |-> FALSE, err |-> "none", v |-> HasherOf(new)]
Err(code) == [ok |-> FALSE, err |-> code, v |-> HasherOf(new)]
Ok(h) == [ok |-> TRUE, err |-> "Success", v |-> h]

\* Mutant of finalize: the standard is not consulted.
finalize_unchecked(self) == Ok(HasherOf(self))

finalize(self) ==
    IF self.standard = "Nist80063b" /\ ~nist_is_valid(self)
    THEN Err("InvalidPasswordFormat")
    ELSE Ok(HasherOf(self))

normalization(self, n) == [self EXCEPT !.normalization = n]

\* Mutant of algorithm: the parameters added so far are kept.
algorithm_keeping(self, a) == [self EXCEPT !.algorithm = a]

algorithm(self, a) == [self EXCEPT !.algorithm = a, !.parameters = EmptyMap]

length_calculation(self, m) == [self EXCEPT !.length_calculation = m]

salt_len(self, len) == [self EXCEPT !.salt_len = len]

min_len(self, len) == [self EXCEPT !.min_len = len]

max_len(self, len) == [self EXCEPT !.max_len = len]

add_param(self, key, value) == [self EXCEPT !.parameters = Insert(self.parameters, key, value)]

\* the field version(v) stores when the sum does not panic
version(self, v) == [self EXCEPT !.version = wrapping_add(v, INTERNAL_VERSION)]

---------------------------------------------------------------------------
(* The builder run: setter calls on a fresh builder, then finalize() *)

MaxBuilderCalls == 3

Standards == {"NoStandard", "Nist80063b"}
Normalizations == {"Nfd", "Nfkd", "Nfc", "Nfkc", "None"}
Algorithms == {"Argon2", "Pbkdf2"}
LengthCalculations == {"Bytes", "Characters"}
SaltLens == {0, 3, 4}
MinLens == {2, 7}
MaxLens == {3, 63, 64}
Versions == {5, USIZE_MAX}
Params == { <<Chars("iter"), Chars("8000")>>,
            <<Chars("iter"), Chars("10000")>>,
            <<Chars("foo"), Chars("1")>> }

NoOutcome == [kind |-> "none", v |-> <<>>, raw |-> <<>>, err |-> "none"]

\* no call made, no policy shared yet
Quiet ==
    /\ trace = <<>>
    /\ asked = None
    /\ again = <<>>
    /\ calls = <<>>
    /\ upd = NoOutcome
    /\ frozen = new
    /\ callers = <<>>

PipelineIdle ==
    /\ hb = new
    /\ ncalls = 0
    /\ hasher = NoHasher
    /\ origin = "none"
    /\ pw = <<>>
    /\ rec = NoOutcome
    /\ cand = <<>>
    /\ valid = NoOutcome
    /\ ppc = "idle"
    /\ Quiet

AlgorithmCall(a) == [op |-> "algorithm", alg |-> a, key |-> <<>>, value |-> <<>>]
AddParamCall(k, v) == [op |-> "add_param", alg |-> "", key |-> k, value |-> v]

\* a call on the builder has returned the builder b
Recorded(b, cs) ==
    /\ hb' = b
    /\ ncalls' = ncalls + 1
    /\ calls' = cs
    /\ UNCHANGED <<cvars, hasher, origin, pw, rec, cand, valid, ppc,
                   trace, asked, upd, again, svars>>

Called(b) == Recorded(b, calls)

SetNormalization(max) ==
    ppc = "build" /\ ncalls < max /\ \E n \in Normalizations : Called(normalization(hb, n))

SetAlgorithm(max) ==
    ppc = "build" /\ ncalls < max /\ \E a \in Algorithms :
        Recorded(algorithm(hb, a), Append(calls, AlgorithmCall(a)))

SetLengthCalculation(max) ==
    ppc = "build" /\ ncalls < max /\ \E m \in LengthCalculations : Called(length_calculation(hb, m))

SetSaltLen(max) ==
    ppc = "build" /\ ncalls < max /\ \E l \in SaltLens : Called(salt_len(hb, l))

SetMinLen(max) ==
    ppc = "build" /\ ncalls < max /\ \E l \in MinLens : Called(min_len(hb, l))

SetMaxLen(max) ==
    ppc = "build" /\ ncalls < max /\ \E l \in MaxLens : Called(max_len(hb, l))

AddParam(max) ==
    ppc = "build" /\ ncalls < max /\ \E kv \in Params :
        Recorded(add_param(hb, kv[1], kv[2]), Append(calls, AddParamCall(kv[1], kv[2])))

\* a panic in a call on the builder ends the run
BuilderPanic ==
    /\ ppc' = "panicked"
    /\ UNCHANGED <<cvars, hb, ncalls, hasher, origin, pw, rec, cand, valid, qvars, svars>>

SetVersion(max) ==
    /\ ppc = "build"
    /\ ncalls < max
    /\ \E v \in Versions :
          IF overflow_checks /\ add_overflows(v, INTERNAL_VERSION)
          THEN BuilderPanic
          ELSE Called(version(hb, v))

Finalize ==
    /\ ppc = "build"
    /\ hasher' = finalize(hb)
    /\ origin' = "finalize"
    /\ ppc' = "policy"
    /\ frozen' = hb
    /\ UNCHANGED <<cvars, hb, ncalls, pw, rec, cand, valid, qvars, callers>>

BuilderInit ==
    /\ CodecIdle(TRUE)
    /\ cpc = "idle"
    /\ \E std \in Standards : hb = new_std(std)
    /\ ncalls = 0
    /\ hasher = NoHasher
    /\ origin = "none"
    /\ pw = <<>>
    /\ rec = NoOutcome
    /\ cand = <<>>
    /\ valid = NoOutcome
    /\ ppc = "build"
    /\ overflow_checks \in BOOLEAN
    /\ Quiet

BuilderNext ==
    \/ SetNormalization(MaxBuilderCalls)
    \/ SetAlgorithm(MaxBuilderCalls)
    \/ SetLengthCalculation(MaxBuilderCalls)
    \/ SetSaltLen(MaxBuilderCalls)
    \/ SetMinLen(MaxBuilderCalls)
    \/ SetMaxLen(MaxBuilderCalls)
    \/ AddParam(MaxBuilderCalls)
    \/ SetVersion(MaxBuilderCalls)
    \/ Finalize

SpecBuilder == BuilderInit /\ [][BuilderNext]_vars

---------------------------------------------------------------------------
(* Passwords are sequences of Unicode scalar values.  The normalization    *)
(* forms are those of the unicode-normalization crate, over the scalar     *)
(* values of the passwords used here: "a" (97), "f" (102), "i" (105),      *)
(* "x" (120), a with diaeresis (228), i with diaeresis (239), x with       *)
(* diaeresis (7821), the combining diaeresis (776) and the ligature fi     *)
(* (64257).  Every combining mark has the same combining class, so the     *)
(* canonical ordering step moves nothing.                                  *)

\* char::encode_utf8
encode_utf8(c) ==
    IF c < 128 THEN << c >>
    ELSE IF c < 2048 THEN << 192 + (c \div 64), 128 + (c % 64) >>
    ELSE IF c < 65536
         THEN << 224 + (c \div 4096), 128 + ((c \div 64) % 64), 128 + (c % 64) >>
         ELSE << 240 + (c \div 262144), 128 + ((c \div 4096) % 64),
                 128 + ((c \div 64) % 64), 128 + (c % 64) >>

\* String::into_bytes
RECURSIVE into_bytes(_)
into_bytes(s) == IF s = <<>> THEN <<>> ELSE encode_utf8(Head(s)) \o into_bytes(Tail(s))

canonical_decomposition(c) ==
    CASE c = 228 -> << 97, 776 >>
      [] c = 239 -> << 105, 776 >>
      [] c = 7821 -> << 120, 776 >>
      [] OTHER -> << c >>

compatibility_decomposition(c) ==
    IF c = 64257 THEN << 102, 105 >> ELSE canonical_decomposition(c)

RECURSIVE nfd(_)
nfd(s) == IF s = <<>> THEN <<>> ELSE canonical_decomposition(Head(s)) \o nfd(Tail(s))

RECURSIVE nfkd(_)
nfkd(s) == IF s = <<>> THEN <<>> ELSE compatibility_decomposition(Head(s)) \o nfkd(Tail(s))

\* the primary composite of a starter and the mark following it, or 0
primary_composite(a, b) ==
    IF b # 776 THEN 0
    ELSE CASE a = 97 -> 228
           [] a = 105 -> 239
           [] a = 120 -> 7821
           [] OTHER -> 0

\* canonical composition of a decomposed string: a mark combines with the
\* starter just before it; a second mark is blocked by the first
RECURSIVE compose(_)
compose(s) ==
    IF Len(s) < 2 THEN s
    ELSE IF primary_composite(s[1], s[2]) # 0
         THEN << primary_composite(s[1], s[2]) >> \o compose(Tail(Tail(s)))
         ELSE << s[1] >> \o compose(Tail(s))

nfc(s) == compose(nfd(s))

nfkc(s) == compose(nfkd(s))

---------------------------------------------------------------------------
(* The hash-algorithm capability (argon2.rs, pbkdf2.rs) and the random     *)
(* source (key.rs), from their contracts: the hash is a function of the    *)
(* algorithm, the salt and the input that is collision-free in them.       *)

hash_func_id(alg) == IF alg = "Argon2" THEN Chars("argon2") ELSE Chars("pbkdf2")

Pbkdf2HashNames ==
    { Chars("sha1"), Chars("sha224"), Chars("sha256"), Chars("sha384"),
      Chars("sha512"), Chars("sha512t224"), Chars("sha512t256"), Chars("keccak224"),
      Chars("keccak256"), Chars("keccak384"), Chars("keccak512"), Chars("sha3-224"),
      Chars("sha3-256"), Chars("sha3-384"), Chars("sha3-512") }

default_parameters(alg) ==
    IF alg = "Argon2"
    THEN (Chars("passes") :> Chars("3")) @@ (Chars("mem") :> Chars("12"))
            @@ (Chars("lanes") :> Chars("4")) @@ (Chars("len") :> Chars("128"))
    ELSE (Chars("iter") :> Chars("45000")) @@ (Chars("hash") :> Chars("sha512"))

\* set_parameter(name, value).is_ok()
set_parameter(alg, name, value) ==
    IF alg = "Argon2"
    THEN name \in { Chars("passes"), Chars("mem"), Chars("lanes"), Chars("len") }
            /\ parse_usize(value).ok
    ELSE \/ name = Chars("iter") /\ parse_usize(value).ok
         \/ name = Chars("hash") /\ value \in Pbkdf2HashNames

norm_name(n) ==
    CASE n = "Nfd" -> Chars("nfd")
      [] n = "Nfkd" -> Chars("nfkd")
      [] n = "Nfc" -> Chars("nfc")
      [] n = "Nfkc" -> Chars("nfkc")
      [] n = "None" -> Chars("none")

\* get_parameters() after set_normalization(n) and set_parameter on every
\* entry of stored
get_parameters(alg, n, stored) ==
    Insert(stored @@ default_parameters(alg), Chars("norm"), norm_name(n))

\* KeyBuilder::new().size(n).as_vec(): n random bytes; RandomByte ranges over
\* the runs of the generator
RandomBytes == { 7, 200 }

generate(n, b) == [i \in 1..n |-> b]

\* get_salt() after set_salt(s) or set_salt_len(n)
get_salt(self, b) ==
    IF self.ref_salt.some THEN self.ref_salt.v ELSE generate(self.salt_len, b)

algorithm_tag(alg) == IF alg = "Argon2" THEN 1 ELSE 2

\* HashingFunction::hash
capability_hash(alg, salt, bytes) == << algorithm_tag(alg), Len(salt) % 256 >> \o salt \o bytes

\* Hmac::<Sha512>::new_varkey(key), input(data), result().code()
hmac_code(key, data) == << key, data >>

---------------------------------------------------------------------------
(* Hasher *)

pass_len(self, password) ==
    IF self.length_calculation = "Bytes" THEN Len(into_bytes(password)) ELSE Len(password)

\* Mutant of check_password: the bounds are exclusive.
check_password_exclusive(self, password) ==
    IF pass_len(self, password) <= self.min_len THEN "PasswordTooShort"
    ELSE IF pass_len(self, password) >= self.max_len THEN "PasswordTooLong"
    ELSE "Success"

\* Mutant of check_password: the maximum is tested first.
check_password_max_first(self, password) ==
    IF pass_len(self, password) > self.max_len THEN "PasswordTooLong"
    ELSE IF pass_len(self, password) < self.min_len THEN "PasswordTooShort"
    ELSE "Success"

check_password(self, password) ==
    IF pass_len(self, password) < self.min_len THEN "PasswordTooShort"
    ELSE IF pass_len(self, password) > self.max_len THEN "PasswordTooLong"
    ELSE "Success"

normalize_password(self, password) ==
    CASE self.normalization = "Nfd" -> nfd(password)
      [] self.normalization = "Nfkd" -> nfkd(password)
      [] self.normalization = "Nfc" -> nfc(password)
      [] self.normalization = "Nfkc" -> nfkc(password)
      [] self.normalization = "None" -> password

\* get_hash_func returns iff no unwrap() in it panics
get_hash_func(self) ==
    \A k \in DOMAIN self.parameters : set_parameter(self.algorithm, k, self.parameters[k])

length_calculation_name(self) ==
    IF self.length_calculation = "Bytes" THEN Chars("bytes") ELSE Chars("chars")

\* Mutant of record_parameters: pmin and pmax carry each other's value.
record_parameters_swapped(self) ==
    Insert(Insert(Insert(Insert(
        get_parameters(self.algorithm, self.normalization, self.parameters),
        Chars("len-calc"), length_calculation_name(self)),
        Chars("pmin"), ToDec(self.max_len)),
        Chars("pmax"), ToDec(self.min_len)),
        Chars("ver"), ToDec(self.version))

\* params of do_hash: the capability's parameters and the bookkeeping ones
record_parameters(self) ==
    Insert(Insert(Insert(Insert(
        get_parameters(self.algorithm, self.normalization, self.parameters),
        Chars("len-calc"), length_calculation_name(self)),
        Chars("pmin"), ToDec(self.min_len)),
        Chars("pmax"), ToDec(self.max_len)),
        Chars("ver"), ToDec(self.version))

\* The outcome of a call: a value, an error code, or a panic
Returned(formated, raw) == [kind |-> "ok", v |-> formated, raw |-> raw, err |-> "Success"]
Failed(code) == [kind |-> "err", v |-> <<>>, raw |-> <<>>, err |-> code]
Panicked == [kind |-> "panic", v |-> <<>>, raw |-> <<>>, err |-> "none"]

formatted(r, hash) == IF r.ok THEN Returned(r.v, hash) ELSE Failed("InvalidPasswordFormat")

\* the tail of do_hash, from the capability's hash on
hashed_duo(self, salt, hash, ord) ==
    formatted(to_string([id |-> hash_func_id(self.algorithm),
                         parameters |-> record_parameters(self),
                         salt |-> Some(salt),
                         hash |-> Some(hash)], ord), hash)

hash_normalized(self, norm_pass, salt, ord) ==
    IF check_password(self, norm_pass) # "Success" THEN Failed(check_password(self, norm_pass))
    ELSE IF ~get_hash_func(self) THEN Panicked
    ELSE hashed_duo(self, salt, capability_hash(self.algorithm, salt, into_bytes(norm_pass)), ord)

\* Mutant of do_hash: the length check is applied to the password as given.
do_hash_raw_check(self, password, b, ord) ==
    IF check_password(self, password) # "Success"
    THEN Failed(check_password(self, password))
    ELSE IF ~get_hash_func(self) THEN Panicked
    ELSE hashed_duo(self, get_salt(self, b),
                    capability_hash(self.algorithm, get_salt(self, b),
                                    into_bytes(normalize_password(self, password))), ord)

\* b is the byte the random source yields in this call, ord the order in which
\* to_string visits the parameters
do_hash(self, password, b, ord) ==
    hash_normalized(self, normalize_password(self, password), get_salt(self, b), ord)

hash(self, password, b, ord) == do_hash(self, password, b, ord)

BoolOutcome(x) == [kind |-> "ok", v |-> x, raw |-> <<>>, err |-> "Success"]

\* Mutant of compare: the second MAC is keyed with a key of its own.
compare_rekeyed(rh, duo, key) ==
    IF duo.kind = "panic" THEN Panicked
    ELSE IF duo.kind = "err" THEN BoolOutcome(FALSE)
    ELSE BoolOutcome(hmac_code(key, rh) = hmac_code(key \o key, duo.raw))

compare(rh, duo, key) ==
    IF duo.kind = "panic" THEN Panicked
    ELSE IF duo.kind = "err" THEN BoolOutcome(FALSE)
    ELSE BoolOutcome(hmac_code(key, rh) = hmac_code(key, duo.raw))

\* Mutant of is_valid: a Policy without reference hash accepts.
is_valid_accepting(self, password, b, kb, ord) ==
    IF self.ref_hash.some
    THEN compare(self.ref_hash.v, do_hash(self, password, b, ord),
                 generate(DEFAULT_SALT_LEN, kb))
    ELSE BoolOutcome(TRUE)

\* b is the byte the random source yields for a fresh salt, kb the one it
\* yields for the MAC key
is_valid(self, password, b, kb, ord) ==
    IF self.ref_hash.some
    THEN compare(self.ref_hash.v, do_hash(self, password, b, ord),
                 generate(DEFAULT_SALT_LEN, kb))
    ELSE BoolOutcome(FALSE)

\* the value needs_update returns when the sum does not panic
needs_update(self, current_version) ==
    IF current_version.some
    THEN self.version < wrapping_add(current_version.v, INTERNAL_VERSION)
    ELSE self.version < DEFAULT_USER_VERSION + INTERNAL_VERSION

needs_update_overflows(current_version) ==
    current_version.some /\ add_overflows(current_version.v, INTERNAL_VERSION)

---------------------------------------------------------------------------
(* What a call does, in order: the steps of the Hasher and the calls it    *)
(* makes on the algorithm capability, the random source and the MAC.       *)

Ev(name) == [ev |-> name, v |-> <<>>]
EvWith(name, value) == [ev |-> name, v |-> value]

\* Mutant of get_hash_func_events: a fresh salt is requested whether or not
\* the Policy has a reference salt.
get_hash_func_events_fresh(self) ==
    << Ev("new"), Ev("set_normalization"), Ev("set_parameter") >>
    \o (IF ~get_hash_func(self) THEN <<>>
        ELSE << Ev("set_salt_len"), EvWith("generate", << self.salt_len >>) >>)

\* get_hash_func: the capability is created and configured; the run of
\* set_parameter calls ends at the first one that fails
get_hash_func_events(self) ==
    << Ev("new"), Ev("set_normalization"), Ev("set_parameter") >>
    \o (IF ~get_hash_func(self) THEN <<>>
        ELSE IF self.ref_salt.some THEN << Ev("set_salt") >>
        ELSE << Ev("set_salt_len"), EvWith("generate", << self.salt_len >>) >>)

\* Mutant of do_hash_events: the capability is set up before the password is
\* checked.
do_hash_events_eager(self, password, b) ==
    << Ev("normalize_password") >> \o get_hash_func_events(self)
    \o << Ev("check_password") >>
    \o (IF check_password(self, normalize_password(self, password)) # "Success"
           \/ ~get_hash_func(self)
        THEN <<>>
        ELSE << Ev("hash"), Ev("get_parameters"), Ev("get_id"),
                EvWith("get_salt", get_salt(self, b)), Ev("to_string") >>)

do_hash_events(self, password, b) ==
    << Ev("normalize_password"), Ev("check_password") >>
    \o (IF check_password(self, normalize_password(self, password)) # "Success" THEN <<>>
        ELSE get_hash_func_events(self)
             \o (IF ~get_hash_func(self) THEN <<>>
                 ELSE << Ev("hash"), Ev("get_parameters"), Ev("get_id"),
                         EvWith("get_salt", get_salt(self, b)), Ev("to_string") >>))

\* the calls of the comparison in is_valid: the key is drawn once and keys
\* both MACs
compare_events(rh, raw, key) ==
    << EvWith("generate", << DEFAULT_SALT_LEN >>),
       EvWith("new_varkey", key), EvWith("input", rh),
       EvWith("new_varkey", key), EvWith("input", raw),
       Ev("result"), Ev("result") >>

\* kb is the byte the random source yields for the MAC key
is_valid_events(self, password, b, kb) ==
    IF ~self.ref_hash.some THEN <<>>
    ELSE do_hash_events(self, password, b)
         \o (IF check_password(self, normalize_password(self, password)) # "Success"
                \/ ~get_hash_func(self)
             THEN <<>>
             ELSE compare_events(self.ref_hash.v,
                                 capability_hash(self.algorithm, get_salt(self, b),
                                     into_bytes(normalize_password(self, password))),
                                 generate(DEFAULT_SALT_LEN, kb)))

---------------------------------------------------------------------------
(* HashBuilder::from_phc *)

Remove(hm, k) == [x \in (DOMAIN hm) \ {k} |-> hm[x]]

BookkeepingNames ==
    { Chars("norm"), Chars("ver"), Chars("pmin"), Chars("pmax"), Chars("len-calc") }

\* Mutant of phc_norm: an unknown name is read as the default.
phc_norm_lenient(params) ==
    IF Chars("norm") \notin DOMAIN params THEN [ok |-> TRUE, v |-> "Nfkc"]
    ELSE CASE params[Chars("norm")] = Chars("nfd") -> [ok |-> TRUE, v |-> "Nfd"]
           [] params[Chars("norm")] = Chars("nfkd") -> [ok |-> TRUE, v |-> "Nfkd"]
           [] params[Chars("norm")] = Chars("nfc") -> [ok |-> TRUE, v |-> "Nfc"]
           [] params[Chars("norm")] = Chars("none") -> [ok |-> TRUE, v |-> "None"]
           [] OTHER -> [ok |-> TRUE, v |-> "Nfkc"]

phc_norm(params) ==
    IF Chars("norm") \notin DOMAIN params THEN [ok |-> TRUE, v |-> "Nfkc"]
    ELSE CASE params[Chars("norm")] = Chars("nfd") -> [ok |-> TRUE, v |-> "Nfd"]
           [] params[Chars("norm")] = Chars("nfkd") -> [ok |-> TRUE, v |-> "Nfkd"]
           [] params[Chars("norm")] = Chars("nfc") -> [ok |-> TRUE, v |-> "Nfc"]
           [] params[Chars("norm")] = Chars("nfkc") -> [ok |-> TRUE, v |-> "Nfkc"]
           [] params[Chars("norm")] = Chars("none") -> [ok |-> TRUE, v |-> "None"]
           [] OTHER -> [ok |-> FALSE, v |-> "None"]

phc_usize(params, name, default) ==
    IF name \notin DOMAIN params THEN [ok |-> TRUE, v |-> default]
    ELSE parse_usize(params[name])

phc_len_calc(params) ==
    IF Chars("len-calc") \notin DOMAIN params THEN [ok |-> TRUE, v |-> "Characters"]
    ELSE CASE params[Chars("len-calc")] = Chars("bytes") -> [ok |-> TRUE, v |-> "Bytes"]
           [] params[Chars("len-calc")] = Chars("chars") -> [ok |-> TRUE, v |-> "Characters"]
           [] OTHER -> [ok |-> FALSE, v |-> "Characters"]

phc_algorithm(id) ==
    CASE id = Chars("argon2") -> [ok |-> TRUE, v |-> "Argon2"]
      [] id = Chars("pbkdf2") -> [ok |-> TRUE, v |-> "Pbkdf2"]
      [] OTHER -> [ok |-> FALSE, v |-> "Argon2"]

RECURSIVE RemoveAll(_, _)
RemoveAll(hm, ks) ==
    IF ks = {} THEN hm
    ELSE RemoveAll(Remove(hm, CHOOSE k \in ks : TRUE), ks \ {CHOOSE k \in ks : TRUE})

from_phc_fields(p, norm, ver, min_l, max_l, lc, alg) ==
    IF ~(norm.ok /\ ver.ok /\ min_l.ok /\ max_l.ok /\ lc.ok /\ alg.ok)
    THEN Err("InvalidPasswordFormat")
    ELSE finalize([standard |-> "NoStandard",
                   normalization |-> norm.v,
                   min_len |-> min_l.v,
                   max_len |-> max_l.v,
                   algorithm |-> alg.v,
                   parameters |-> RemoveAll(p.parameters, BookkeepingNames),
                   ref_salt |-> p.salt,
                   ref_hash |-> p.hash,
                   salt_len |-> IF p.salt.some THEN Len(p.salt.v) ELSE DEFAULT_SALT_LEN,
                   length_calculation |-> lc.v,
                   version |-> ver.v])

\* Mutant of from_phc_parsed: a record without ver gets the user version
\* alone.
from_phc_parsed_user_version(r) ==
    IF ~r.ok THEN Err("InvalidPasswordFormat")
    ELSE from_phc_fields(r.v,
                         phc_norm(r.v.parameters),
                         phc_usize(r.v.parameters, Chars("ver"), DEFAULT_USER_VERSION),
                         phc_usize(r.v.parameters, Chars("pmin"), DEFAULT_PASSWORD_MIN_LEN),
                         phc_usize(r.v.parameters, Chars("pmax"), DEFAULT_PASSWORD_MAX_LEN),
                         phc_len_calc(r.v.parameters),
                         phc_algorithm(r.v.id))

from_phc_parsed(r) ==
    IF ~r.ok THEN Err("InvalidPasswordFormat")
    ELSE from_phc_fields(r.v,
                         phc_norm(r.v.parameters),
                         phc_usize(r.v.parameters, Chars("ver"),
                                   DEFAULT_USER_VERSION + INTERNAL_VERSION),
                         phc_usize(r.v.parameters, Chars("pmin"), DEFAULT_PASSWORD_MIN_LEN),
                         phc_usize(r.v.parameters, Chars("pmax"), DEFAULT_PASSWORD_MAX_LEN),
                         phc_len_calc(r.v.parameters),
                         phc_algorithm(r.v.id))

from_phc(data, st) == from_phc_parsed(from_bytes(data, st))

---------------------------------------------------------------------------
(* The pipeline run: a builder is configured and finalized, the hasher     *)
(* hashes a password, the record is parsed back by from_phc and the        *)
(* resulting checker verifies a candidate password.  from_phc is also      *)
(* applied to records that were not produced by hash.                      *)

MaxSetterCalls == 2

Passwords ==
    { <<>>,
      << 97 >>,
      << 228 >>,
      << 97, 776 >>,
      << 64257 >>,
      << 102, 105 >>,
      << 97, 97, 97, 97 >>,
      << 97, 97, 97, 97, 97, 97, 97, 97 >>,
      << 97, 97, 97, 97, 97, 97, 97, 228 >>,
      << 97, 97, 97, 97, 97, 97, 97, 97, 776 >> }

\* password + "x"
Extended(p) == p \o << 120 >>

Candidates(p) == Passwords \cup { Extended(p) }

RecordTexts ==
    { "$pbkdf2$foo=1$YQ$YWI",
      "$pbkdf2$iter=10000$YQ$YWI",
      "$argon2",
      "$scrypt$$YQ$YWI",
      "$pbkdf2$pmin=x$YQ$YWI",
      "$argon2$ver=5$YQ$YWI",
      "$argon2$pmin=10,pmax=42,ver=+5,norm=nfd,len-calc=bytes,passes=3$YQ$YWI",
      "$pbkdf2$pmin=2,pmax=1$YQ",
      "$pbkdf2$pmin=2,pmax=1$YQ$YWI",
      "$argon2$norm=nfx$YQ$YWI",
      "$argon2$len-calc=runes$YQ$YWI",
      "$argon2$ver=-1$YQ$YWI",
      "$argon2$pmax=65536$YQ$YWI",
      "argon2$ver=5$YQ$YWI" }

\* hash() calls made in a row on one parsed Policy
MaxRehash == 2

\* Two of the orders in which a HashMap may yield the parameters of a record
KeyOrders ==
    { << Chars("norm"), Chars("passes"), Chars("mem"), Chars("lanes"), Chars("len"),
         Chars("iter"), Chars("hash"), Chars("len-calc"), Chars("pmin"), Chars("pmax"),
         Chars("ver") >>,
      << Chars("ver"), Chars("pmax"), Chars("pmin"), Chars("len-calc"), Chars("hash"),
         Chars("iter"), Chars("len"), Chars("lanes"), Chars("mem"), Chars("passes"),
         Chars("norm") >> }

\* the answer of is_valid does not depend on the order of the parameters
SomeOrder == CHOOSE o \in KeyOrders : TRUE

visit(order, hm) == SelectSeq(order, LAMBDA k : k \in DOMAIN hm)

\* what the random source may yield for the salt: it is asked only by a
\* Policy that has no reference salt
SaltBytes(self) == IF self.ref_salt.some THEN { 0 } ELSE RandomBytes

Hash ==
    /\ ppc = "policy"
    /\ hasher.ok
    /\ \E p \in Passwords, b \in SaltBytes(hasher.v), o \in KeyOrders :
          /\ pw' = p
          /\ rec' = hash(hasher.v, p, b, visit(o, record_parameters(hasher.v)))
          /\ trace' = do_hash_events(hasher.v, p, b)
    /\ ppc' = "hashed"
    /\ UNCHANGED <<cvars, hb, ncalls, hasher, origin, cand, valid, asked, upd, again, calls, svars>>

FromPhc ==
    /\ ppc = "hashed"
    /\ rec.kind = "ok"
    /\ hasher' = from_phc(rec.v, strict)
    /\ origin' = "from_phc"
    /\ ppc' = "checker"
    /\ UNCHANGED <<cvars, hb, ncalls, pw, rec, cand, valid, qvars, svars>>

FromPhcText ==
    /\ ppc = "build"
    /\ ncalls = 0
    /\ hb = new
    /\ \E text \in RecordTexts :
          /\ rec' = [kind |-> "given", v |-> Chars(text), raw |-> <<>>, err |-> "none"]
          /\ hasher' = from_phc(Chars(text), strict)
    /\ origin' = "record"
    /\ ppc' = "checker"
    /\ UNCHANGED <<cvars, hb, ncalls, pw, cand, valid, qvars, svars>>

\* what the random source may yield for the key of the comparison: it is
\* asked only when do_hash has returned Ok
KeyBytes(self, password) ==
    IF /\ self.ref_hash.some
       /\ check_password(self, normalize_password(self, password)) = "Success"
       /\ get_hash_func(self)
    THEN RandomBytes ELSE { 0 }

IsValid ==
    /\ ppc \in {"policy", "checker"}
    /\ hasher.ok
    /\ \E t \in Candidates(pw), b \in SaltBytes(hasher.v) :
       \E kb \in KeyBytes(hasher.v, t) :
          /\ cand' = t
          /\ valid' = is_valid(hasher.v, t, b, kb,
                                visit(SomeOrder, record_parameters(hasher.v)))
          /\ trace' = is_valid_events(hasher.v, t, b, kb)
    /\ ppc' = "checked"
    /\ UNCHANGED <<cvars, hb, ncalls, hasher, origin, pw, rec, asked, upd, again, calls, svars>>

\* hash(pw) called on a Policy that from_phc() returned
HashParsed ==
    /\ ppc \in {"checker", "rehashed"}
    /\ hasher.ok
    /\ Len(again) < MaxRehash
    /\ \E b \in SaltBytes(hasher.v), o \in KeyOrders :
          /\ again' = Append(again, [arg |-> pw,
                                     res |-> hash(hasher.v, pw, b,
                                                  visit(o, record_parameters(hasher.v)))])
          /\ trace' = do_hash_events(hasher.v, pw, b)
    /\ ppc' = "rehashed"
    /\ UNCHANGED <<cvars, hb, ncalls, hasher, origin, pw, rec, cand, valid, asked, upd, calls, svars>>

CurrentVersions == { None } \cup { Some(n) : n \in {0, 4, 5, 42, USIZE_MAX} }

NeedsUpdate ==
    /\ ppc \in {"policy", "checker"}
    /\ hasher.ok
    /\ \E cv \in CurrentVersions :
          /\ asked' = cv
          /\ upd' = IF overflow_checks /\ needs_update_overflows(cv)
                    THEN Panicked
                    ELSE BoolOutcome(needs_update(hasher.v, cv))
    /\ ppc' = "asked"
    /\ UNCHANGED <<cvars, hb, ncalls, hasher, origin, pw, rec, cand, valid, trace, again, calls, svars>>

Init == BuilderInit

Next ==
    \/ SetNormalization(MaxSetterCalls)
    \/ SetAlgorithm(MaxSetterCalls)
    \/ SetLengthCalculation(MaxSetterCalls)
    \/ SetSaltLen(MaxSetterCalls)
    \/ SetMinLen(MaxSetterCalls)
    \/ SetMaxLen(MaxSetterCalls)
    \/ AddParam(MaxSetterCalls)
    \/ SetVersion(MaxSetterCalls)
    \/ Finalize
    \/ Hash
    \/ FromPhc
    \/ FromPhcText
    \/ IsValid
    \/ NeedsUpdate

Spec == Init /\ [][Next]_vars

---------------------------------------------------------------------------
(* The rehash run: the pipeline run with the salt length as the only       *)
(* setting, in which hash() is also called, several times in a row, on the *)
(* Policy that from_phc() returned.                                        *)

MaxSaltLenCalls == 1

RehashNext ==
    \/ SetSaltLen(MaxSaltLenCalls)
    \/ Finalize
    \/ Hash
    \/ FromPhc
    \/ FromPhcText
    \/ IsValid
    \/ HashParsed

SpecRehash == Init /\ [][RehashNext]_vars

---------------------------------------------------------------------------
(* The codec run: an input is assembled from "$"-separated segments, then  *)
(* parsed, serialized, parsed again and serialized again.                  *)

MaxSegments == 5

IdSegs == { <<>>, <<"t">>, <<"@">>, <<"d","u","m","m","y">> }

ParamSegs ==
    { <<>>,
      <<"i","=","4">>,
      <<"i","=","4",",">>,
      <<"i","=","4",",","j","=","A">>,
      <<"i","=","4",",","i","=","5">>,
      <<"i","=","4","j","=","5">>,
      <<"j","=",".","/","+","-">>,
      <<"=","4">>,
      <<"i","@","=","4">>,
      <<"i","=","?">>,
      <<"i">>,
      <<"i","=">>,
      <<"Y","Q">> }

SaltSegs ==
    { <<>>, <<"Y","Q">>, <<"Y">>, <<"Y","R">>, <<"Y","Q","=","=">>, <<"Y","%">> }

HashSegs ==
    { <<>>, <<"Y","W","I">>, <<"Y","W","J","j">>, <<"Y">>, <<"Y","W","I","=">> }

TailSegs == { <<>>, <<"Y","Q">> }

SegChoices(k) ==
    CASE k = 1 -> IdSegs
      [] k = 2 -> ParamSegs
      [] k = 3 -> SaltSegs
      [] k = 4 -> HashSegs
      [] OTHER -> TailSegs

CodecInit ==
    /\ \E st \in BOOLEAN : CodecIdle(st)
    /\ cpc = "input"
    /\ overflow_checks = TRUE
    /\ PipelineIdle

\* The caller extends the byte string by one segment; only the first one may
\* lack its leading "$".
AppendSegment ==
    /\ cpc = "input"
    /\ nsegs < MaxSegments
    /\ \E seg \in SegChoices(nsegs + 1) :
       \E sep \in (IF nsegs = 0 THEN { <<>>, <<"$">> } ELSE { <<"$">> }) :
          input' = input \o sep \o seg
    /\ nsegs' = nsegs + 1
    /\ UNCHANGED <<strict, phc, out, phc2, out2, cpc, pvars, overflow_checks, qvars, svars>>

Parse ==
    /\ cpc = "input"
    /\ phc' = from_bytes(input, strict)
    /\ cpc' = "parsed"
    /\ UNCHANGED <<input, nsegs, strict, out, phc2, out2, pvars, overflow_checks, qvars, svars>>

Serialize ==
    /\ cpc = "parsed"
    /\ phc.ok
    /\ \E ord \in Orders(DOMAIN phc.v.parameters) : out' = to_string(phc.v, ord)
    /\ cpc' = "serialized"
    /\ UNCHANGED <<input, nsegs, strict, phc, phc2, out2, pvars, overflow_checks, qvars, svars>>

ParseAgain ==
    /\ cpc = "serialized"
    /\ out.ok
    /\ phc2' = from_bytes(out.v, strict)
    /\ cpc' = "reparsed"
    /\ UNCHANGED <<input, nsegs, strict, phc, out, out2, pvars, overflow_checks, qvars, svars>>

SerializeAgain ==
    /\ cpc = "reparsed"
    /\ phc2.ok
    /\ \E ord \in Orders(DOMAIN phc2.v.parameters) : out2' = to_string(phc2.v, ord)
    /\ cpc' = "done"
    /\ UNCHANGED <<input, nsegs, strict, phc, out, phc2, pvars, overflow_checks, qvars, svars>>

CodecNext ==
    \/ AppendSegment
    \/ Parse
    \/ Serialize
    \/ ParseAgain
    \/ SerializeAgain

SpecCodec == CodecInit /\ [][CodecNext]_vars

---------------------------------------------------------------------------
(* The record grammar, as a language of byte strings:                      *)
(*   record := "$" id ( "$" params ( "$" b64data ( "$" b64data )? )? )?    *)

RECURSIVE Split(_)
Split(s) ==
    IF \A i \in 1..Len(s) : s[i] # "$" THEN << s >>
    ELSE LET i == CHOOSE k \in 1..Len(s) : s[k] = "$" /\ \A j \in 1..(k - 1) : s[j] # "$"
         IN  << SubSeq(s, 1, i - 1) >> \o Split(SubSeq(s, i + 1, Len(s)))

InId(w) == Len(w) > 0 /\ \A i \in 1..Len(w) : is_id_char(w[i])

InB64(w) == \A i \in 1..Len(w) : is_b64(w[i])

\* paramElem := name "=" value ( "," )?
IsParamElem(w) ==
    \E i \in 2..Len(w) :
       /\ w[i] = "="
       /\ \A j \in 1..(i - 1) : is_param_name_char(w[j])
       /\ LET e == IF w[Len(w)] = "," THEN Len(w) - 1 ELSE Len(w)
          IN  e > i /\ \A j \in (i + 1)..e : is_param_value_char(w[j])

\* params := paramElem*
RECURSIVE InParams(_)
InParams(w) ==
    \/ w = <<>>
    \/ \E k \in 1..Len(w) :
          IsParamElem(SubSeq(w, 1, k)) /\ InParams(SubSeq(w, k + 1, Len(w)))

\* params with a comma between any two consecutive elements (the comma after
\* the last element stays optional)
RECURSIVE InParamsSeparated(_)
InParamsSeparated(w) ==
    \/ w = <<>>
    \/ \E k \in 1..Len(w) :
          /\ IsParamElem(SubSeq(w, 1, k))
          /\ k = Len(w) \/ w[k] = ","
          /\ InParamsSeparated(SubSeq(w, k + 1, Len(w)))

InRecord(g, P(_)) ==
    /\ Len(g) \in 2..5
    /\ g[1] = <<>>
    /\ InId(g[2])
    /\ Len(g) >= 3 => P(g[3])
    /\ Len(g) >= 4 => InB64(g[4])
    /\ Len(g) >= 5 => InB64(g[5])

Derivable(s) == InRecord(Split(s), InParams)

DerivableSeparated(s) == InRecord(Split(s), InParamsSeparated)

EndsWithDollar(s) == Len(s) > 0 /\ s[Len(s)] = "$"

RECURSIVE StripDollars(_)
StripDollars(s) ==
    IF EndsWithDollar(s) THEN StripDollars(SubSeq(s, 1, Len(s) - 1)) ELSE s

NbParams(r) == Cardinality(DOMAIN r.v.parameters)

\* c is a string every serialization of its own parse returns, with at most
\* one parameter
CanonicalSingle(c, st) ==
    LET q == from_bytes(c, st) IN
    /\ q.ok
    /\ NbParams(q) <= 1
    /\ \A ord \in Orders(DOMAIN q.v.parameters) : to_string(q.v, ord) = [ok |-> TRUE, v |-> c]

---------------------------------------------------------------------------
(* Claims about the codec, checked under SpecCodec *)

\* C4 as stated: a string r returned by to_string for a parsed record parses, and
\* serializing that parse returns r byte for byte, whatever the number of parameters.
C4_RoundTripByteIdentical ==
    /\ cpc \in {"reparsed", "done"} => phc2.ok
    /\ cpc = "done" => out2 = out

\* C4 amended: r parses; serializing that parse returns a string that parses to the
\* same record as r, and returns r byte for byte when r has at most one parameter
\* (with several parameters the name=value pairs may come out in another order).
C4_RoundTripUpToOrder ==
    /\ cpc \in {"reparsed", "done"} => phc2.ok
    /\ cpc = "done" =>
          /\ out2.ok
          /\ from_bytes(out2.v, strict) = phc2
          /\ NbParams(phc2) <= 1 => out2 = out

C4_Witness ==
    /\ cpc = "done"
    /\ out2 = out
    /\ out.v = <<"$","t","$","i","=","4","$","Y","Q","$","Y","W","I">>

C6_HashImpliesSalt ==
    (cpc # "input" /\ phc.ok) =>
       /\ phc.v.hash.some => phc.v.salt.some
       /\ phc.v.salt.some => Len(Split(input)) >= 3

\* C7 as stated: for every accepted input that ends in empty segments, parse then
\* serialize returns the input without its trailing "$"s.
C7_DanglingRemoved ==
    (cpc = "serialized" /\ EndsWithDollar(input)) =>
       out = [ok |-> TRUE, v |-> StripDollars(input)]

\* C7 amended: for every accepted input that is a canonical string with at most
\* one parameter followed by empty segments, parse then serialize returns that
\* canonical string.
C7_DanglingRemovedCanonical ==
    (cpc = "serialized" /\ EndsWithDollar(input)
        /\ CanonicalSingle(StripDollars(input), strict)) =>
       out = [ok |-> TRUE, v |-> StripDollars(input)]

C7_Witness ==
    /\ cpc = "serialized"
    /\ input = <<"$","t","$","i","=","4","$","Y","Q","$">>
    /\ out.v = <<"$","t","$","i","=","4","$","Y","Q">>

---------------------------------------------------------------------------
(* Claims about the builder, checked under SpecBuilder *)

Finalized == ppc = "policy" /\ origin = "finalize"

\* C8: whenever finalize() rejects a configuration because it violates the
\* selected standard, the error it returns is IncompatibleOption.
C8_RejectionIsIncompatibleOption ==
    (Finalized /\ ~hasher.ok) => hasher.err = "IncompatibleOption"

IterationCountAccepted ==
    Chars("iter") \in DOMAIN hb.parameters =>
        /\ parse_usize(hb.parameters[Chars("iter")]).ok
        /\ parse_usize(hb.parameters[Chars("iter")]).v >= NIST_PBKDF2_MIN_ITER

NistRules ==
    /\ hb.min_len >= 8
    /\ hb.max_len >= 64
    /\ hb.length_calculation = "Characters"
    /\ hb.normalization \in {"None", "Nfkc", "Nfkd"}
    /\ hb.algorithm = "Pbkdf2"
    /\ hb.salt_len >= 4
    /\ IterationCountAccepted

\* C9: after any sequence of setter calls on a builder created with
\* new_std(Nist80063b), finalize() returns Ok if and only if min_len >= 8,
\* max_len >= 64, the length calculation is Characters, the normalization is
\* None, Nfkc or Nfkd, the algorithm is Pbkdf2, salt_len >= 4 and an iteration
\* count, if present, is at least the threshold; it returns Ok with the
\* standard's untouched defaults, and never rejects a NoStandard builder.
C9_NistRuleSet ==
    Finalized =>
        /\ hb.standard = "Nist80063b" => (hasher.ok <=> NistRules)
        /\ (hb.standard = "Nist80063b" /\ hb = new_std("Nist80063b")) => hasher.ok
        /\ hb.standard = "NoStandard" => hasher.ok

\* C9: finalize() has accepted a NIST builder on which setters were called and
\* that carries an iteration count.
C9_Witness ==
    /\ Finalized
    /\ hb.standard = "Nist80063b"
    /\ ncalls >= 2
    /\ Chars("iter") \in DOMAIN hb.parameters
    /\ hasher.ok

---------------------------------------------------------------------------
(* Claims about the pipeline, checked under Spec *)

IsTrue(o) == o.kind = "ok" /\ o.v = TRUE
IsFalse(o) == o.kind = "ok" /\ o.v = FALSE

\* the checker was parsed from the record that hash(pw) returned
Reparsed == origin = "from_phc" /\ ppc \in {"checker", "checked"}

\* C1: for every password p and every hasher h produced by finalize, salt_len = 0
\* included, if h.hash(p) returns Ok(r) then from_phc(r) succeeds and the parsed
\* checker c has c.is_valid(p) = true and c.is_valid(p + "x") = false.
C1_IdempotentVerification ==
    Reparsed =>
        /\ hasher.ok
        /\ (ppc = "checked" /\ cand = pw) => IsTrue(valid)
        /\ (ppc = "checked" /\ cand = Extended(pw)) => IsFalse(valid)

NormalizedLen == pass_len(hasher.v, normalize_password(hasher.v, pw))

C3_FailClosed ==
    (ppc = "checked"
        /\ \/ check_password(hasher.v, normalize_password(hasher.v, cand)) # "Success"
           \/ ~get_hash_func(hasher.v))
    => IsFalse(valid)

Normalized(n, s) == IF n = "Nfkc" THEN nfkc(s) ELSE nfkd(s)

\* C10: for a record hashed from password s under NFKC or NFKD, the parsed
\* checker's is_valid(t) is true for every t with the same normalized form as s
\* and false for every t whose normalized form differs; for a record hashed
\* under None, is_valid(t) is true only for t byte-identical to s.
C10_NormalizationSensitivity ==
    (Reparsed /\ ppc = "checked") =>
        /\ hb.normalization \in {"Nfkc", "Nfkd"} =>
              /\ Normalized(hb.normalization, cand) = Normalized(hb.normalization, pw)
                    => IsTrue(valid)
              /\ Normalized(hb.normalization, cand) # Normalized(hb.normalization, pw)
                    => IsFalse(valid)
        /\ hb.normalization = "None" =>
              (IsTrue(valid) => into_bytes(cand) = into_bytes(pw))

-----------------------------------------------------------------------------
\* Versions

Asked == ppc = "asked"

\* the call returned the boolean b
Answered(o, b) == o.kind = "ok" /\ o.v = b

\* the comparison of the claim, over the integers
Outdated(V, cv) ==
    IF cv.some THEN V < cv.v + INTERNAL_VERSION
    ELSE V < DEFAULT_USER_VERSION + INTERNAL_VERSION

\* C11: for every Policy with stored version V and every n,
\* needs_update(Some(n)) is true if and only if V < n + INTERNAL_VERSION, and
\* needs_update(None) is true if and only if
\* V < DEFAULT_USER_VERSION + INTERNAL_VERSION
C11_VersionGating ==
    Asked => Answered(upd, Outdated(hasher.v.version, asked))

\* what holds of C11: the equivalence whenever n + INTERNAL_VERSION is
\* representable, and the five answers for a record with ver=5
C11_VersionGatingRepresentable ==
    Asked /\ ~needs_update_overflows(asked)
        => Answered(upd, Outdated(hasher.v.version, asked))

C11_RecordExamples ==
    Asked /\ origin = "record" /\ rec.v = Chars("$argon2$ver=5$YQ$YWI")
        => /\ hasher.v.version = 5
           /\ asked \in {Some(5), Some(42)} => IsTrue(upd)
           /\ asked \in {Some(4), Some(0), None} => IsFalse(upd)

\* the arguments of version() that leave the builder's version field as it is
VersionGiven == { v \in Versions : hb.version = wrapping_add(v, INTERNAL_VERSION) }

\* a record returned by hash is held
Hashed == rec.kind = "ok"

RecordParameters == from_bytes(rec.v, strict).v.parameters

\* C12: version(v) on a builder writes ver = v + INTERNAL_VERSION into every
\* record the Policy produces, and the Policy parsed back from such a record
\* answers needs_update(Some(w)) with true if and only if w > v
C12_VersionRoundTrip ==
    \A v \in VersionGiven :
        /\ Hashed => RecordParameters[Chars("ver")] = ToDec(v + INTERNAL_VERSION)
        /\ Asked /\ origin = "from_phc" /\ asked.some
              => Answered(upd, asked.v > v)

\* what holds of C12: the round trip whenever v + INTERNAL_VERSION and
\* w + INTERNAL_VERSION are representable
C12_VersionRoundTripRepresentable ==
    \A v \in VersionGiven \ {USIZE_MAX} :
        /\ Hashed => RecordParameters[Chars("ver")] = ToDec(v + INTERNAL_VERSION)
        /\ Asked /\ origin = "from_phc" /\ asked.some /\ ~needs_update_overflows(asked)
              => Answered(upd, asked.v > v)

-----------------------------------------------------------------------------
\* Verification without a reference hash, and the order of the steps

Checked == ppc = "checked"

\* C13: a Policy that carries no reference hash never reports a password as
\* valid: is_valid returns false for every candidate, and does so without
\* calling the algorithm capability or the random source
C13_NoReferenceHash ==
    Checked /\ ~hasher.v.ref_hash.some => IsFalse(valid) /\ trace = <<>>

C13_Witness ==
    /\ Checked /\ ~hasher.v.ref_hash.some
    /\ origin = "finalize"
    /\ check_password(hasher.v, normalize_password(hasher.v, cand)) = "Success"
    /\ IsFalse(valid)

\* the calls on the algorithm capability and on the random source
CapabilityEvents ==
    { "new", "set_normalization", "set_parameter", "set_salt", "set_salt_len",
      "generate", "hash", "get_parameters", "get_id", "get_salt" }

Occurs(names) == \E i \in 1..Len(trace) : trace[i].ev \in names

\* the password of the call that has just returned
Given == IF Checked THEN cand ELSE pw

Rejected == check_password(hasher.v, normalize_password(hasher.v, Given)) # "Success"

\* C14: in every hash or is_valid call whose password violates the length
\* policy the error is decided before the capability is instantiated, before
\* a salt is requested from the random source and before the hash operation
\* is invoked, and none of these events occurs in the call; in every call the
\* length check precedes each of them
C14_RejectionBeforeHashing ==
    ppc \in {"hashed", "checked"} =>
        /\ Rejected => ~Occurs(CapabilityEvents)
        /\ Rejected /\ ppc = "hashed"
              => rec = Failed(check_password(hasher.v, normalize_password(hasher.v, pw)))
        /\ Rejected /\ Checked => IsFalse(valid)
        /\ \A i \in 1..Len(trace) :
              trace[i].ev \in CapabilityEvents
                 => \E j \in 1..(i - 1) : trace[j].ev = "check_password"

C14_Witness ==
    /\ Checked /\ hasher.v.ref_hash.some /\ Rejected
    /\ Occurs({"check_password"})
    /\ IsFalse(valid)

-----------------------------------------------------------------------------
(* The shared run: one Policy is handed to several callers, which call     *)
(* hash, is_valid and needs_update on it (&self) concurrently while the    *)
(* builder it came from is changed further.  A call on a password reads    *)
(* the Policy in two steps: normalize_password, then the rest of do_hash.  *)

NumCallers == 2
MaxMutations == 1

SharedPasswords == { << 97 >>, << 97, 97, 97, 97, 97, 97, 97, 97 >> }
SharedVersions == { None, Some(5) }

IdleCaller ==
    [pc |-> "idle", op |-> "none", arg |-> <<>>, cv |-> None, norm |-> <<>>,
     res |-> NoOutcome]

\* the record hash() returns for the eight-letter password
SharedRecord(self) ==
    hash(self, << 97, 97, 97, 97, 97, 97, 97, 97 >>, CHOOSE b \in RandomBytes : TRUE,
         visit(SomeOrder, record_parameters(self))).v

SharedInit ==
    /\ CodecIdle(TRUE)
    /\ cpc = "idle"
    /\ \E std \in Standards : hb = new_std(std)
    /\ ncalls = 0
    /\ hasher = NoHasher
    /\ origin = "none"
    /\ pw = <<>>
    /\ rec = NoOutcome
    /\ cand = <<>>
    /\ valid = NoOutcome
    /\ ppc = "build"
    /\ overflow_checks = TRUE
    /\ Quiet

Share(policy, builder, from) ==
    /\ ppc = "build"
    /\ hasher' = policy
    /\ frozen' = builder
    /\ origin' = from
    /\ callers' = [c \in 1..NumCallers |-> IdleCaller]
    /\ ppc' = "shared"
    /\ UNCHANGED <<cvars, hb, ncalls, pw, rec, cand, valid, qvars>>

\* finalize() on the builder
ShareFinalized == Share(finalize(hb), hb, "finalize")

\* from_phc on a record: the builder it fills and finalizes is its own
ShareParsed ==
    Share(from_phc(SharedRecord(HasherOf(hb)), strict),
          [standard |-> "NoStandard"] @@ from_phc(SharedRecord(HasherOf(hb)), strict).v,
          "from_phc")

Calling(c, entry) ==
    /\ ppc = "shared"
    /\ callers' = [callers EXCEPT ![c] = entry]
    /\ UNCHANGED <<cvars, pvars, qvars, frozen>>

BeginCall(c) ==
    /\ ppc = "shared"
    /\ callers[c].pc = "idle"
    /\ \/ \E op \in {"hash", "is_valid"}, p \in SharedPasswords :
             Calling(c, [IdleCaller EXCEPT !.pc = "called", !.op = op, !.arg = p])
       \/ \E cv \in SharedVersions :
             Calling(c, [IdleCaller EXCEPT !.pc = "called", !.op = "needs_update", !.cv = cv])

\* is_valid on a Policy without reference hash returns at once; otherwise the
\* call starts do_hash, whose first step is normalize_password
NormalizeStep(c) ==
    /\ ppc = "shared"
    /\ callers[c].pc = "called"
    /\ callers[c].op \in {"hash", "is_valid"}
    /\ IF callers[c].op = "is_valid" /\ ~hasher.v.ref_hash.some
       THEN Calling(c, [callers[c] EXCEPT !.pc = "done", !.res = BoolOutcome(FALSE)])
       ELSE Calling(c, [callers[c] EXCEPT !.pc = "normalized",
                                          !.norm = normalize_password(hasher.v, callers[c].arg)])

\* the rest of do_hash, and the comparison of is_valid
HashStep(c) ==
    /\ ppc = "shared"
    /\ callers[c].pc = "normalized"
    /\ \E b \in RandomBytes, kb \in RandomBytes :
          Calling(c, [callers[c] EXCEPT
              !.pc = "done",
              !.res = IF callers[c].op = "hash"
                      THEN hash_normalized(hasher.v, callers[c].norm, get_salt(hasher.v, b),
                                           visit(SomeOrder, record_parameters(hasher.v)))
                      ELSE compare(hasher.v.ref_hash.v,
                                   hash_normalized(hasher.v, callers[c].norm,
                                                   get_salt(hasher.v, b),
                                                   visit(SomeOrder, record_parameters(hasher.v))),
                                   generate(DEFAULT_SALT_LEN, kb))])

NeedsUpdateStep(c) ==
    /\ ppc = "shared"
    /\ callers[c].pc = "called"
    /\ callers[c].op = "needs_update"
    /\ Calling(c, [callers[c] EXCEPT
           !.pc = "done",
           !.res = IF overflow_checks /\ needs_update_overflows(callers[c].cv)
                   THEN Panicked
                   ELSE BoolOutcome(needs_update(hasher.v, callers[c].cv))])

ReturnCall(c) ==
    /\ ppc = "shared"
    /\ callers[c].pc = "done"
    /\ Calling(c, IdleCaller)

\* setters called on the builder after the Policy was made
LaterBuilders(self) ==
    { min_len(self, 2), salt_len(self, 0), normalization(self, "None"), version(self, 5) }

MutateBuilder ==
    /\ ppc = "shared"
    /\ ncalls < MaxMutations
    /\ \/ \E b \in LaterBuilders(hb) : Called(b)
       \/ Recorded(add_param(hb, Chars("iter"), Chars("8000")),
                   Append(calls, AddParamCall(Chars("iter"), Chars("8000"))))

SharedNext ==
    \/ ShareFinalized
    \/ ShareParsed
    \/ MutateBuilder
    \/ \E c \in 1..NumCallers :
          \/ BeginCall(c)
          \/ NormalizeStep(c)
          \/ HashStep(c)
          \/ NeedsUpdateStep(c)
          \/ ReturnCall(c)

SpecShared == SharedInit /\ [][SharedNext]_vars

Shared == ppc = "shared"

\* the Policy as it was when finalize() returned it
PolicyAsFinalized ==
    [normalization |-> frozen.normalization,
     min_len |-> frozen.min_len,
     max_len |-> frozen.max_len,
     algorithm |-> frozen.algorithm,
     parameters |-> frozen.parameters,
     ref_salt |-> frozen.ref_salt,
     ref_hash |-> frozen.ref_hash,
     salt_len |-> frozen.salt_len,
     length_calculation |-> frozen.length_calculation,
     version |-> frozen.version]

SameOutcome(a, b) ==
    /\ a.kind = b.kind
    /\ a.err = b.err
    /\ a.kind = "ok" => a.v = b.v /\ a.raw = b.raw

\* the answers a call gives when it runs alone on the Policy as finalized
Alone(call) ==
    IF call.op = "hash"
    THEN { hash(PolicyAsFinalized, call.arg, b, visit(SomeOrder, record_parameters(PolicyAsFinalized)))
              : b \in RandomBytes }
    ELSE IF call.op = "is_valid"
    THEN { is_valid(PolicyAsFinalized, call.arg, b, kb,
                    visit(SomeOrder, record_parameters(PolicyAsFinalized)))
              : b \in RandomBytes, kb \in RandomBytes }
    ELSE { BoolOutcome(needs_update(PolicyAsFinalized, call.cv)) }

\* C15: hash, is_valid and needs_update never modify a field of the Policy:
\* after any interleaving of such calls by concurrent callers on one shared
\* Policy every field equals its value at finalize(), later mutation of the
\* builder does not change the Policy, and every call answers as it would
\* alone
C15_PolicyImmutable ==
    Shared =>
        /\ hasher.ok
        /\ hasher.v = PolicyAsFinalized
        /\ \A c \in 1..NumCallers :
              callers[c].pc = "done"
                 => \E a \in Alone(callers[c]) : SameOutcome(a, callers[c].res)

C15_Witness ==
    /\ Shared
    /\ ncalls > 0 /\ hb.min_len # hasher.v.min_len
    /\ callers[1].pc = "normalized" /\ callers[1].op = "is_valid"
    /\ callers[2].pc = "done" /\ callers[2].op = "hash" /\ callers[2].res.kind = "ok"
    /\ hasher.v.ref_hash.some

-----------------------------------------------------------------------------
\* The parse path

\* from_phc has just returned
Parsed == ppc = "checker" /\ origin \in {"record", "from_phc"}

\* the record that from_bytes reads in the text given to from_phc
Record == from_bytes(rec.v, strict).v

\* the value of a numeral: digits after an optional "+"
NumeralValue(s) == DecValue(IF Head(s) = "+" THEN Tail(s) ELSE s, 0)

Present(r, name) == Chars(name) \in DOMAIN r.parameters

Param(r, name) == r.parameters[Chars(name)]

\* the fields of the Policy h are those of the record r
Extracted(h, r) ==
    /\ norm_name(h.normalization)
          = (IF Present(r, "norm") THEN Param(r, "norm") ELSE Chars("nfkc"))
    /\ h.version
          = (IF Present(r, "ver") THEN NumeralValue(Param(r, "ver"))
             ELSE DEFAULT_USER_VERSION + INTERNAL_VERSION)
    /\ h.min_len = (IF Present(r, "pmin") THEN NumeralValue(Param(r, "pmin")) ELSE 8)
    /\ h.max_len = (IF Present(r, "pmax") THEN NumeralValue(Param(r, "pmax")) ELSE 128)
    /\ length_calculation_name(h)
          = (IF Present(r, "len-calc") THEN Param(r, "len-calc") ELSE Chars("chars"))
    /\ h.parameters
          = [k \in (DOMAIN r.parameters)
                      \ {Chars("norm"), Chars("ver"), Chars("pmin"), Chars("pmax"),
                         Chars("len-calc")} |-> r.parameters[k]]
    /\ h.ref_salt = r.salt
    /\ h.ref_hash = r.hash

\* C16: for every record accepted by from_phc, normalization, version,
\* min_len, max_len and length_calculation are taken from the parameters
\* norm, ver, pmin, pmax and len-calc when present and otherwise default to
\* NFKC, DEFAULT_USER_VERSION + INTERNAL_VERSION, 8, 128 and Characters; the
\* algorithm parameters are the record's parameters minus those five keys;
\* the parsed salt and hash become the reference salt and reference hash
C16_FieldExtraction ==
    Parsed /\ hasher.ok => Extracted(hasher.v, Record)

C16_Witness ==
    /\ Parsed /\ hasher.ok /\ origin = "record"
    /\ rec.v = Chars("$argon2$pmin=10,pmax=42,ver=+5,norm=nfd,len-calc=bytes,passes=3$YQ$YWI")
    /\ hasher.v.parameters = (Chars("passes") :> Chars("3"))
    /\ hasher.v.min_len = 10 /\ hasher.v.version = 5
    /\ hasher.v.normalization = "Nfd" /\ hasher.v.length_calculation = "Bytes"

\* s is the numeral of a usize: digits after an optional "+", of a value
\* that usize holds
Unsigned(s) ==
    /\ (IF Head(s) = "+" THEN Tail(s) ELSE s) # <<>>
    /\ \A i \in 1..Len(s) : s[i] \in Digit \/ (i = 1 /\ s[i] = "+")
    /\ NumeralValue(s) <= USIZE_MAX

\* the reasons for which from_phc refuses the text whose parse is r
Refused(r) ==
    \/ ~r.ok
    \/ /\ Present(r.v, "norm")
       /\ Param(r.v, "norm") \notin
             { Chars("nfd"), Chars("nfkd"), Chars("nfc"), Chars("nfkc"), Chars("none") }
    \/ Present(r.v, "len-calc")
          /\ Param(r.v, "len-calc") \notin { Chars("bytes"), Chars("chars") }
    \/ \E name \in {"ver", "pmin", "pmax"} :
          Present(r.v, name) /\ ~Unsigned(Param(r.v, name))
    \/ r.v.id \notin { Chars("argon2"), Chars("pbkdf2") }

\* C17: from_phc returns InvalidPasswordFormat, and no other error, exactly
\* when the text is not a well-formed record, or norm is not one of
\* nfd/nfkd/nfc/nfkc/none, or len-calc is not bytes/chars, or ver, pmin or
\* pmax is not an unsigned integer, or the id is neither argon2 nor pbkdf2;
\* in every other case it returns a Policy, also for pmin < 8 or pmin > pmax
C17_ParseErrors ==
    Parsed =>
        /\ ~hasher.ok <=> Refused(from_bytes(rec.v, strict))
        /\ ~hasher.ok => hasher.err = "InvalidPasswordFormat"

C17_Witness ==
    /\ Parsed /\ ~hasher.ok
    /\ rec.v = Chars("$argon2$norm=nfx$YQ$YWI")
    /\ from_bytes(rec.v, strict).ok
    /\ hasher.err = "InvalidPasswordFormat"

\* a record with pmin < 8 and pmin > pmax is accepted
C17_Accepted ==
    /\ Parsed /\ hasher.ok
    /\ hasher.v.min_len = 2 /\ hasher.v.max_len = 1

-----------------------------------------------------------------------------
\* The record that hash() assembles

\* hash() has just returned a record
Assembled == ppc = "hashed" /\ rec.kind = "ok"

\* the salt the capability reported in the call
SaltUsed == trace[CHOOSE i \in 1..Len(trace) : trace[i].ev = "get_salt"].v

Bookkeeping(self, name) ==
    CASE name = Chars("len-calc") ->
            (IF self.length_calculation = "Bytes" THEN Chars("bytes") ELSE Chars("chars"))
      [] name = Chars("pmin") -> ToDec(self.min_len)
      [] name = Chars("pmax") -> ToDec(self.max_len)
      [] name = Chars("ver") -> ToDec(self.version)

\* the reported parameters, overridden by the four bookkeeping ones
Overridden(self, reported) ==
    [name \in (DOMAIN reported)
                 \cup {Chars("len-calc"), Chars("pmin"), Chars("pmax"), Chars("ver")} |->
        IF name \in {Chars("len-calc"), Chars("pmin"), Chars("pmax"), Chars("ver")}
        THEN Bookkeeping(self, name)
        ELSE reported[name]]

AssembledFrom(self, text, segments, salt) ==
    /\ Len(segments) = 5
    /\ segments[2] = hash_func_id(self.algorithm)
    /\ from_bytes(text, strict).v.parameters
          = Overridden(self, get_parameters(self.algorithm, self.normalization,
                                            self.parameters))
    /\ segments[4] = to_b64(salt)
    /\ Len(salt) = self.salt_len
    /\ rec.raw = capability_hash(self.algorithm, salt,
                                 into_bytes(normalize_password(self, pw)))
    /\ segments[5] = to_b64(rec.raw)

\* C18: every record returned by hash() has the capability's id as its id,
\* carries the salt used by the algorithm and the raw hash of the normalized
\* password, and its parameter mapping is the algorithm's reported parameters
\* overridden by len-calc, pmin, pmax and ver, whose values equal the
\* Policy's length_calculation, min_len, max_len and version
C18_RecordAssembly ==
    Assembled => AssembledFrom(hasher.v, rec.v, Split(rec.v), SaltUsed)

C18_Witness ==
    /\ Assembled
    /\ hasher.v.algorithm = "Pbkdf2"
    /\ hasher.v.parameters = (Chars("iter") :> Chars("10000"))
    /\ Len(SaltUsed) = 16
    /\ from_bytes(rec.v, strict).v.parameters[Chars("iter")] = Chars("10000")

-----------------------------------------------------------------------------
\* Serialization

Serialized == cpc = "serialized"

\* the text the claim gives for a record with a non-empty id, its parameters
\* taken in the order ord
StatedText(r, ord) ==
    IF DOMAIN r.parameters = {} /\ ~r.salt.some THEN <<"$">> \o r.id
    ELSE <<"$">> \o r.id \o <<"$">> \o JoinParams(r.parameters, ord, 1)
         \o (IF r.salt.some THEN <<"$">> \o to_b64(r.salt.v) ELSE <<>>)
         \o (IF r.hash.some THEN <<"$">> \o to_b64(r.hash.v) ELSE <<>>)

AsStated(r, result) ==
    /\ result.ok <=> Len(r.id) > 0
    /\ result.ok => \E ord \in Orders(DOMAIN r.parameters) : result.v = StatedText(r, ord)

\* C19: to_string fails if and only if the id is empty; otherwise it emits
\* only "$id" when the parameter mapping is empty and no salt is present, and
\* in every other case "$id$", the comma-joined name=value pairs, then "$"
\* and the unpadded base64 of the salt if a salt is present, then "$" and the
\* unpadded base64 of the hash if a hash is present
C19_Serialization ==
    Serialized => AsStated(phc.v, out)

\* what holds of C19: the same for every record that has no hash or has a
\* salt and a hash
C19_SerializationWithSalt ==
    Serialized /\ (phc.v.hash.some => phc.v.salt.some) => AsStated(phc.v, out)

-----------------------------------------------------------------------------
\* Setters

\* after is before with one setter applied, as the claim describes the setters;
\* algorithm(), which the claim does not describe, is taken as it is
Framed(before, after) ==
    \/ \E l \in MinLens : after = [before EXCEPT !.min_len = l]
    \/ \E l \in MaxLens : after = [before EXCEPT !.max_len = l]
    \/ \E l \in SaltLens : after = [before EXCEPT !.salt_len = l]
    \/ \E n \in Normalizations : after = [before EXCEPT !.normalization = n]
    \/ \E m \in LengthCalculations : after = [before EXCEPT !.length_calculation = m]
    \/ \E kv \in Params :
          after = [before EXCEPT !.parameters =
                    [k \in (DOMAIN before.parameters) \cup {kv[1]} |->
                        IF k = kv[1] THEN kv[2] ELSE before.parameters[k]]]
    \/ \E v \in Versions : after = [before EXCEPT !.version = v + INTERNAL_VERSION]
    \/ \E a \in Algorithms : after = algorithm(before, a)

\* a call on the builder is being made
SetterCalled == ppc = "build" /\ (ncalls' # ncalls \/ ppc' = "panicked")

\* C20: each of min_len, max_len, salt_len, normalization,
\* length_calculation, add_param and version changes only its own field
\* (version(v) stores v + INTERNAL_VERSION, add_param inserts or replaces one
\* key), leaves the standard, the reference salt and the reference hash
\* unchanged and returns the same builder
C20_SetterFrames ==
    [][SetterCalled => ppc' = "build" /\ Framed(hb, hb')]_vars

\* what holds of C20: the same for every call whose sum is representable
C20_SetterFramesRepresentable ==
    [][SetterCalled /\ ppc' = "build" /\ hb'.version # 0 => Framed(hb, hb')]_vars

-----------------------------------------------------------------------------
\* The comparison of is_valid

\* the positions of the calls named name in the last call
Positions(name) == { i \in 1..Len(trace) : trace[i].ev = name }

\* is_valid has just returned after comparing
Compared == Checked /\ Positions("new_varkey") # {}

\* the values given to the calls named name, in order
Values(name) ==
    [k \in 1..Cardinality(Positions(name)) |->
        trace[CHOOSE i \in Positions(name) :
                 Cardinality({ j \in Positions(name) : j <= i }) = k].v]

\* the draws from the random source made after the record was assembled
KeyDraws ==
    { i \in Positions("generate") : \E j \in Positions("to_string") : j < i }

ComparedBy(keys, inputs) ==
    /\ Cardinality(KeyDraws) = 1
    /\ \A i \in KeyDraws : trace[i].v = << DEFAULT_SALT_LEN >>
    /\ Len(keys) = 2 /\ Len(inputs) = 2
    /\ keys[1] = keys[2]
    /\ Len(keys[1]) = DEFAULT_SALT_LEN
    /\ inputs[1] = hasher.v.ref_hash.v
    /\ inputs[2] = capability_hash(hasher.v.algorithm, SaltUsed,
                                   into_bytes(normalize_password(hasher.v, cand)))
    /\ Answered(valid, hmac_code(keys[1], inputs[1]) = hmac_code(keys[2], inputs[2]))
    /\ Answered(valid, inputs[1] = inputs[2])

\* C21: in each is_valid call that reaches the comparison exactly one random
\* key of DEFAULT_SALT_LEN bytes is drawn, the MAC over the reference hash and
\* the MAC over the newly computed hash are keyed with that key, and the
\* boolean returned is the equality of the two MACs, so is_valid is true
\* exactly when the new raw hash equals the reference hash
C21_MacComparison ==
    Compared => ComparedBy(Values("new_varkey"), Values("input"))

C21_Witness ==
    /\ Compared /\ IsTrue(valid)
    /\ origin = "from_phc"
    /\ Len(Values("new_varkey")[1]) = DEFAULT_SALT_LEN

-----------------------------------------------------------------------------
\* Empty, repeated and undecodable segments

\* from_bytes has accepted the input
Accepted == cpc # "input" /\ phc.ok

\* segment k of the input is there and is empty
EmptySegment(segments, k) == Len(segments) >= k /\ segments[k] = <<>>

AbsentWhenEmpty(r, segments) ==
    /\ EmptySegment(segments, 3) => DOMAIN r.parameters = {}
    /\ EmptySegment(segments, 4) => ~r.salt.some
    /\ EmptySegment(segments, 5) => ~r.hash.some
    /\ r.salt.some => Len(r.salt.v) > 0
    /\ r.hash.some => Len(r.hash.v) > 0

\* C22: an input whose parameters segment is empty parses to an empty
\* parameter mapping, an empty salt or hash segment parses to an absent salt
\* or hash and never to a present zero-length value, and "$dummy" parses to
\* id dummy with empty parameters, no salt and no hash
C22_EmptySegmentsAbsent ==
    /\ Accepted => AbsentWhenEmpty(phc.v, Split(input))
    /\ cpc # "input" /\ input = <<"$","d","u","m","m","y">>
          => phc = [ok |-> TRUE,
                    v |-> [id |-> <<"d","u","m","m","y">>, parameters |-> EmptyMap,
                           salt |-> None, hash |-> None]]

C22_Witness ==
    /\ Accepted
    /\ input = <<"$","t","$","$","$">>
    /\ DOMAIN phc.v.parameters = {} /\ ~phc.v.salt.some /\ ~phc.v.hash.some

\* the parameters segment of the input ends with a comma
TrailingComma(segments) ==
    Len(segments) >= 3 /\ segments[3] # <<>> /\ segments[3][Len(segments[3])] = ","

\* C23: in a parameters segment a comma is accepted only between two
\* parameter elements: an input whose parameters segment ends with a comma
\* after its last element fails to parse
C23_CommaPlacement ==
    cpc # "input" /\ TrailingComma(Split(input)) => ~phc.ok


---------------------------------------------------------------------------
(* Salt source                                                             *)

\* a hash() or is_valid() call of hasher has just returned
CallMade == ppc \in {"hashed", "checked", "rehashed"}

\* ... and it configured the salt of the capability
SaltSet == CallMade /\ Occurs({"set_salt", "set_salt_len"})

\* the draws from the random source made before the record was assembled
SaltDraws ==
    { i \in Positions("generate") : \E j \in Positions("to_string") : i < j }

FromReference ==
    /\ Cardinality(Positions("set_salt")) = 1
    /\ Positions("set_salt_len") = {}
    /\ SaltDraws = {}
    /\ SaltUsed = hasher.v.ref_salt.v

Fresh ==
    /\ Positions("set_salt") = {}
    /\ Cardinality(Positions("set_salt_len")) = 1
    /\ Cardinality(SaltDraws) = 1
    /\ \A i \in SaltDraws : trace[i].v = << hasher.v.salt_len >>
    /\ Len(SaltUsed) = hasher.v.salt_len

SaltByReference == SaltSet => IF hasher.v.ref_salt.some THEN FromReference ELSE Fresh

\* hash(p) has been called twice on one Policy that has a reference salt
HashedTwice ==
    /\ Len(again) >= 2
    /\ again[1].arg = again[2].arg
    /\ hasher.v.ref_salt.some

SameText(x, y) == x.kind = y.kind /\ (x.kind = "ok" => x.v = y.v)

\* the two records differ at most in the order of their parameters
SameFields(x, y) == from_bytes(x, strict) = from_bytes(y, strict)

SameRecord(x, y) ==
    /\ x.kind = y.kind
    /\ x.kind = "ok" => x.raw = y.raw /\ SameFields(x.v, y.v)

\* C24: a Policy with a reference salt pushes that salt in every hash and
\* is_valid call and never requests a fresh one, so two hash(p) calls on it
\* return the identical record text; a Policy without a reference salt
\* requests a fresh salt of salt_len bytes in every call, is_valid on a Policy
\* with a reference hash included
C24_SaltSource ==
    /\ SaltByReference
    /\ HashedTwice => SameText(again[1].res, again[2].res)

\* C24, amended: as above, but the two records have the same id, parameters,
\* salt and hash, the parameters possibly in another order
C24_SaltSourceUpToOrder ==
    /\ SaltByReference
    /\ HashedTwice => SameRecord(again[1].res, again[2].res)

C24_Witness ==
    /\ HashedTwice
    /\ again[1].res.kind = "ok"
    /\ again[1].res.v # again[2].res.v
    /\ FromReference

\* is_valid on a Policy with a reference hash and no reference salt
C24_WitnessFresh ==
    /\ Checked /\ SaltSet
    /\ hasher.v.ref_hash.some /\ ~hasher.v.ref_salt.some
    /\ Fresh


---------------------------------------------------------------------------
(* Pipeline order                                                          *)

\* a hash() call has just returned, with the outcome LastHash
HashCalled == ppc \in {"hashed", "rehashed"}

LastHash == IF ppc = "hashed" THEN rec ELSE again[Len(again)].res

\* what a hash() outcome says about the length of the password
Verdict(o) ==
    IF o.kind = "err" /\ o.err \in {"PasswordTooShort", "PasswordTooLong"}
    THEN o.err ELSE "Success"

NormalizedVerdict(p) == check_password(hasher.v, normalize_password(hasher.v, p))

SameNormalForm(p, q) ==
    normalize_password(hasher.v, p) = normalize_password(hasher.v, q)

RawWithin(p) ==
    /\ pass_len(hasher.v, p) >= hasher.v.min_len
    /\ pass_len(hasher.v, p) <= hasher.v.max_len

NormalizedFirst ==
    /\ Positions("normalize_password") = {1}
    /\ Positions("check_password") = {2}

\* C25: in every hash or is_valid call the password is normalized first and
\* the length check is applied to the normalized password: two passwords with
\* the same normalized form receive the same length verdict, and a password
\* whose raw length is within [min_len, max_len] while its normalized length
\* is not is rejected
C25_PipelineOrder ==
    /\ CallMade /\ trace # <<>> => NormalizedFirst
    /\ HashCalled =>
          /\ Verdict(LastHash) = NormalizedVerdict(Given)
          /\ \A q \in Passwords, b \in RandomBytes :
                SameNormalForm(q, Given)
                   => Verdict(hash(hasher.v, q, b,
                                   visit(SomeOrder, record_parameters(hasher.v))))
                         = Verdict(LastHash)
          /\ RawWithin(Given) /\ NormalizedVerdict(Given) # "Success"
                => LastHash.kind = "err"
    /\ Checked /\ trace # <<>> =>
          /\ NormalizedVerdict(Given) # "Success" <=> Len(trace) = 2
          /\ NormalizedVerdict(Given) # "Success" => IsFalse(valid)

\* hash() rejected a password whose own length is within the bounds, as it had
\* rejected another password with the same normalized form
C25_Witness ==
    /\ ppc = "hashed"
    /\ RawWithin(pw)
    /\ rec.kind = "err" /\ rec.err = "PasswordTooShort"
    /\ \E q \in Passwords : q # pw /\ SameNormalForm(q, pw) /\ ~RawWithin(q)
    /\ NormalizedFirst


---------------------------------------------------------------------------
(* algorithm() and the parameters                                          *)

\* the position of the last algorithm() call in cs, 0 when there is none
LastAlgorithm(cs) ==
    IF \E i \in 1..Len(cs) : cs[i].op = "algorithm"
    THEN CHOOSE i \in 1..Len(cs) :
            /\ cs[i].op = "algorithm"
            /\ \A j \in (i+1)..Len(cs) : cs[j].op # "algorithm"
    ELSE 0

\* the add_param calls made before the last algorithm() call
Discarded(cs) == { i \in 1..LastAlgorithm(cs) : cs[i].op = "add_param" }

\* the add_param calls made after it
Kept(cs) == { i \in (LastAlgorithm(cs)+1)..Len(cs) : cs[i].op = "add_param" }

\* the last value given to each name after the last algorithm() call
KeptParameters(cs) ==
    [k \in { cs[i].key : i \in Kept(cs) } |->
        cs[CHOOSE i \in Kept(cs) :
              cs[i].key = k /\ \A j \in Kept(cs) : cs[j].key = k => j <= i].value]

\* C26: algorithm(a) discards every parameter added so far: whatever the
\* setter sequence, the finalized Policy holds exactly the parameters added
\* after the last algorithm() call, the standards check decides on these
\* alone, and a parameter added only before that call is absent
C26_AlgorithmDiscards ==
    Finalized =>
        /\ hb.parameters = KeptParameters(calls)
        /\ hasher.ok => hasher.v.parameters = KeptParameters(calls)
        /\ hasher.ok <=> (hb.standard = "NoStandard"
                            \/ nist_is_valid([hb EXCEPT !.parameters = KeptParameters(calls)]))
        /\ \A i \in Discarded(calls) :
              hasher.ok /\ (\A j \in Kept(calls) : calls[j].key # calls[i].key)
                 => calls[i].key \notin DOMAIN hasher.v.parameters

\* finalize() accepted a NIST builder whose iteration count, too low for the
\* standard, was given before algorithm(); the parameter given after is kept
C26_Witness ==
    /\ Finalized
    /\ hb.standard = "Nist80063b"
    /\ Len(calls) = 3
    /\ calls[1] = AddParamCall(Chars("iter"), Chars("8000"))
    /\ calls[2].op = "algorithm"
    /\ calls[3] = AddParamCall(Chars("foo"), Chars("1"))
    /\ hasher.ok
    /\ DOMAIN hasher.v.parameters = { Chars("foo") }


\* the parts of w between the occurrences of c
RECURSIVE SplitAt(_, _)
SplitAt(w, c) ==
    IF \A i \in 1..Len(w) : w[i] # c THEN << w >>
    ELSE << SubSeq(w, 1, (CHOOSE k \in 1..Len(w) :
                             w[k] = c /\ \A j \in 1..(k - 1) : w[j] # c) - 1) >>
         \o SplitAt(SubSeq(w, (CHOOSE k \in 1..Len(w) :
                                  w[k] = c /\ \A j \in 1..(k - 1) : w[j] # c) + 1, Len(w)), c)

\* the name=value elements written in a parameters segment
Elements(w) == SelectSeq(SplitAt(w, ","), LAMBDA e : e # <<>>)

NameOf(e) == SplitAt(e, "=")[1]
ValueOf(e) == SplitAt(e, "=")[2]

Names(es) == { NameOf(es[i]) : i \in 1..Len(es) }

\* the value of the last element of es named k
LastValue(es, k) ==
    ValueOf(es[CHOOSE i \in 1..Len(es) :
                  NameOf(es[i]) = k /\ \A j \in (i+1)..Len(es) : NameOf(es[j]) # k])

Repeated(es) == \E i, j \in 1..Len(es) : i # j /\ NameOf(es[i]) = NameOf(es[j])

LastWins(r, es) ==
    /\ DOMAIN r.parameters = Names(es)
    /\ \A k \in Names(es) : r.parameters[k] = LastValue(es, k)

WrittenOnce(text, r) ==
    /\ Len(Elements(Split(text)[3])) = Cardinality(DOMAIN r.parameters)
    /\ ~Repeated(Elements(Split(text)[3]))

\* C27: a parameters segment that repeats a name is accepted; the mapping
\* holds each name once, with the value of its last occurrence, and
\* to_string writes the name once ("$t$i=4,i=5" parses to i=5 and is
\* written back as "$t$i=5")
C27_DuplicateNames ==
    /\ Accepted /\ Len(Split(input)) >= 3 => LastWins(phc.v, Elements(Split(input)[3]))
    /\ Serialized /\ Len(Split(input)) >= 3 /\ Repeated(Elements(Split(input)[3]))
          => out.ok /\ WrittenOnce(out.v, phc.v)
    /\ cpc # "input" /\ input = <<"$","t","$","i","=","4",",","i","=","5">>
          => phc.ok /\ phc.v.parameters = (<<"i">> :> <<"5">>)

C27_Witness ==
    /\ Serialized
    /\ input = <<"$","t","$","i","=","4",",","i","=","5">>
    /\ out.v = <<"$","t","$","i","=","5">>


\* a non-empty segment of base64 characters that the decoder refuses
Undecodable(w) == w # <<>> /\ InB64(w) /\ ~decode_config(w, strict).ok

\* the text whose "$"-separated parts are segments
RECURSIVE Rejoin(_)
Rejoin(segments) ==
    IF Len(segments) = 1 THEN segments[1]
    ELSE segments[1] \o <<"$">> \o Rejoin(Tail(segments))

Emptied(segments, k) == [segments EXCEPT ![k] = <<>>]

AbsentAt(r, k) == IF k = 4 THEN ~r.salt.some ELSE ~r.hash.some

ParsedAsEmpty(segments, k) ==
    /\ phc.ok <=> from_bytes(Rejoin(Emptied(segments, k)), strict).ok
    /\ phc.ok => /\ AbsentAt(phc.v, k)
                 /\ phc.v = from_bytes(Rejoin(Emptied(segments, k)), strict).v

\* C28: a salt or hash segment made of base64 characters that does not decode
\* (a single character, "$t$i=4$Y") does not make from_bytes fail: the input
\* is accepted whenever it is accepted with that segment empty, and the
\* segment is parsed as absent, to the same record
C28_UndecodableAbsent ==
    /\ cpc # "input" =>
          \A k \in {4, 5} :
             Len(Split(input)) >= k /\ Undecodable(Split(input)[k])
                => ParsedAsEmpty(Split(input), k)
    /\ cpc # "input" /\ input = <<"$","t","$","i","=","4","$","Y">>
          => phc.ok /\ ~phc.v.salt.some /\ DOMAIN phc.v.parameters = { <<"i">> }

\* an input with a one-character salt segment and a decodable hash segment
\* was accepted, its salt absent
C28_Witness ==
    /\ Accepted
    /\ input = <<"$","t","$","i","=","4","$","Y","$","Y","W","I">>
    /\ ~phc.v.salt.some
    /\ phc.v.hash.some


---------------------------------------------------------------------------
(* The canonical form *)

\* the salt and hash segments of a text, as written
DataSegments(text) == SubSeq(Split(text), 4, Len(Split(text)))

SameSegments(x, y) ==
    /\ Split(x)[2] = Split(y)[2]
    /\ from_bytes(x, strict).v.parameters = from_bytes(y, strict).v.parameters
    /\ DataSegments(x) = DataSegments(y)

\* C29: for every accepted input x, to_string(parse(x)) succeeds and is
\* itself accepted, and parsing it yields a record whose serialization has the
\* same id, the same parameter mapping and the same salt and hash segments as
\* to_string(parse(x))
C29_CanonicalFixedPoint ==
    /\ cpc \in {"serialized", "reparsed", "done"} => out.ok
    /\ cpc \in {"reparsed", "done"} => phc2.ok
    /\ cpc = "done" => out2.ok /\ SameSegments(out.v, out2.v)

\* the second serialization of an input with a salt and a hash differs from the
\* first in the order of the parameters only
C29_Witness ==
    /\ cpc = "done"
    /\ phc.v.hash.some
    /\ out2.v # out.v
    /\ SameSegments(out.v, out2.v)


---------------------------------------------------------------------------
(* Inverted bounds *)

Inverted == hasher.ok /\ hasher.v.min_len > hasher.v.max_len

\* the length the check measures: that of the normalized password
MeasuredLen(p) == pass_len(hasher.v, normalize_password(hasher.v, p))

InvertedTexts == { Chars("$pbkdf2$pmin=2,pmax=1$YQ"), Chars("$pbkdf2$pmin=2,pmax=1$YQ$YWI") }

\* C30: a Policy with min_len > max_len, which finalize() without a standard
\* and from_phc() both accept, rejects every password: hash fails with
\* PasswordTooShort for every length below min_len, lengths above max_len
\* included, and with PasswordTooLong otherwise, and is_valid answers false
\* for every password
C30_InvertedBounds ==
    /\ Finalized /\ hb.standard = "NoStandard" /\ hb.min_len > hb.max_len => Inverted
    /\ origin = "record" /\ rec.v \in InvertedTexts
          => Inverted /\ hasher.v.min_len = 2 /\ hasher.v.max_len = 1
    /\ HashCalled /\ Inverted =>
          /\ LastHash.kind = "err"
          /\ LastHash.err = IF MeasuredLen(Given) < hasher.v.min_len
                            THEN "PasswordTooShort" ELSE "PasswordTooLong"
    /\ Checked /\ Inverted => IsFalse(valid)

\* hash() answered PasswordTooShort for a password longer than max_len
C30_Witness ==
    /\ ppc = "hashed"
    /\ Inverted
    /\ MeasuredLen(pw) > hasher.v.max_len
    /\ rec.kind = "err" /\ rec.err = "PasswordTooShort"

\* is_valid answered false on a record with pmin > pmax and a reference hash
C30_WitnessParsed ==
    /\ Checked /\ origin = "record" /\ Inverted
    /\ hasher.v.ref_hash.some
    /\ MeasuredLen(cand) >= hasher.v.min_len
    /\ IsFalse(valid)

=============================================================================
